---- MODULE Spec2Model ----
(***************************************************************************)
(* A model of photo-album-exif-fixer: the date rules (albums.ts), the EXIF *)
(* read / format / write functions (exif.ts), the album cache              *)
(* (stores/albumStore.ts), the album page (routes/album/[name]) and the    *)
(* main page scan (routes/main).                                           *)
(*                                                                         *)
(* Conventions.                                                            *)
(*  - A JavaScript string is a sequence of one-character strings, so that  *)
(*    prefixes, suffixes and digits are computed, not assumed.             *)
(*  - null / undefined is the empty function <<>>.  Every nullable value   *)
(*    of the model is a record or a non-empty sequence when present.       *)
(*  - A Date is a record of its local-time fields (month 0-based as in     *)
(*    JavaScript).  Local time has no daylight-saving jumps in the model.  *)
(*  - An EXIF date string "YYYY:MM:DD HH:MM:SS" is the 6-tuple of its      *)
(*    numeric fields (month 1-based, no milliseconds).                     *)
(***************************************************************************)
EXTENDS Integers, Sequences, FiniteSets, TLC

VARIABLES
    fnIn,          \* pure-function harness: the arguments of the call
    fnOut,         \* pure-function harness: the result of the call (Null before)
    albumCache,    \* albumStore.ts: the module-level albumCache object
    now,           \* Date.now(), in milliseconds from an arbitrary origin
    storeTrace,    \* history of the store calls: the last call, the time of the
                   \* last setAlbums (0: none), whether clearCache came after it
    disk,          \* the root folder: album folder name -> directory,
                   \* a directory: entry name -> file or directory
    albumName,     \* album page: $page.params.name
    albumDate,     \* album page: let albumDate
    albumDirHandle,\* album page: let albumDirHandle (the folder name, or Null)
    photos,        \* album page: let photos
    pagePc,        \* album page: "mounted", "loading", "loaded", or "left"
                   \* after goto()
    loading,       \* album page: the call of loadAlbumPhotos in flight
    fixes,         \* album page: the calls of fixPhotoExifDate in flight
    fixLog,        \* history: the outcome of every finished fixPhotoExifDate
    fixAll,        \* album page: the calls of fixAllExifDates, in the order made
    lastLog,       \* logger: the entry logged last
    decodeFailures,\* the number of reads exifr has failed to decode so far
    mounted,       \* main page: the instance on screen (0: another page is)
    albums,        \* main page: let albums, of every instance of the page
    isLoading,     \* main page: let isLoading, of every instance
    error,         \* main page: let error, of every instance
    scans,         \* main page: the call of scanAlbums in flight, per instance
    tasks,         \* main page: the calls of analyzeAlbumExifStatus in flight
    scanCount,     \* history: the number of scans started so far
    heap,          \* object identity: reference -> the array or record there
    held,          \* object identity: the array references a caller holds
    logs,          \* logger: LoggerService.logs
    idCounter,     \* logger: LoggerService.idCounter
    listeners,     \* logger: the number of listeners subscribed
    delivered      \* layout: let logs, the snapshot its listener got last

fnVars == <<fnIn, fnOut>>

storeVars == <<albumCache, now, storeTrace>>

pageVars ==
    <<disk, albumName, albumDate, albumDirHandle, photos, pagePc, loading,
      fixes, fixLog, fixAll, lastLog, decodeFailures>>

mainVars == <<mounted, albums, isLoading, error, scans, tasks, scanCount>>

refVars == <<heap, held>>

logVars == <<logs, idCounter, listeners, delivered>>

vars == <<fnVars, storeVars, pageVars, mainVars, refVars, logVars>>

Null == <<>>

\* the parts of the state a specification does not use
FnUnused == fnIn = Null /\ fnOut = Null

RefUnused == heap = Null /\ held = {}

LogUnused == logs = <<>> /\ idCounter = 0 /\ listeners = 0 /\ delivered = <<>>

StoreUnused == albumCache = Null /\ now = 0 /\ storeTrace = Null

PageUnused ==
    /\ disk = Null /\ albumName = Null /\ albumDate = Null
    /\ albumDirHandle = Null /\ photos = <<>> /\ pagePc = Null
    /\ fixes = Null /\ fixLog = <<>> /\ lastLog = Null /\ decodeFailures = 0
    /\ fixAll = <<>> /\ loading = Null

MainUnused ==
    /\ mounted = 0 /\ albums = Null /\ isLoading = Null /\ error = Null
    /\ scans = Null /\ tasks = {} /\ scanCount = 0

(***************************************************************************)
(* Strings                                                                 *)
(***************************************************************************)
Digits == {"0", "1", "2", "3", "4", "5", "6", "7", "8", "9"}

DigitVal(c) ==
    CASE c = "0" -> 0 [] c = "1" -> 1 [] c = "2" -> 2 [] c = "3" -> 3
      [] c = "4" -> 4 [] c = "5" -> 5 [] c = "6" -> 6 [] c = "7" -> 7
      [] c = "8" -> 8 [] c = "9" -> 9

\* parseInt(s, 10) of a string of decimal digits
RECURSIVE parseInt(_)
parseInt(s) ==
    IF Len(s) = 0 THEN 0
    ELSE 10 * parseInt(SubSeq(s, 1, Len(s) - 1)) + DigitVal(s[Len(s)])

\* String.prototype.endsWith
endsWith(s, suffix) ==
    /\ Len(suffix) <= Len(s)
    /\ SubSeq(s, Len(s) - Len(suffix) + 1, Len(s)) = suffix

(***************************************************************************)
(* Dates (JavaScript Date in local time)                                   *)
(***************************************************************************)
IsLeapYear(y) == (y % 4 = 0 /\ y % 100 # 0) \/ y % 400 = 0

\* days of month m (0-based) in year y
DaysInMonth(y, m) ==
    IF m = 1 THEN (IF IsLeapYear(y) THEN 29 ELSE 28)
    ELSE IF m \in {3, 5, 8, 10} THEN 30 ELSE 31

\* new Date(year, monthIndex, day, hours, minutes, seconds, ms): a day past the
\* end of the month rolls over into the next month, as Date does (day <= 31).
NewDate(y, m, d, h, mi, s, ms) ==
    IF d > DaysInMonth(y, m)
    THEN [year |-> IF m = 11 THEN y + 1 ELSE y, month |-> (m + 1) % 12,
          date |-> d - DaysInMonth(y, m),
          hours |-> h, minutes |-> mi, seconds |-> s, ms |-> ms]
    ELSE [year |-> y, month |-> m, date |-> d,
          hours |-> h, minutes |-> mi, seconds |-> s, ms |-> ms]

\* Date.prototype.setHours(h, m, s, ms) with all four in range
setHours(date, h, mi, s, ms) ==
    [date EXCEPT !.hours = h, !.minutes = mi, !.seconds = s, !.ms = ms]

(***************************************************************************)
(* Milliseconds since local midnight, and the day number of the calendar   *)
(* date.  getTime() is the pair <<day number, ms of day>>, compared         *)
(* lexicographically (the millisecond count itself exceeds TLC's integers). *)
(***************************************************************************)
RECURSIVE DaysBeforeMonth(_, _)
DaysBeforeMonth(y, m) ==
    IF m = 0 THEN 0 ELSE DaysBeforeMonth(y, m - 1) + DaysInMonth(y, m - 1)

DayNumber(date) ==
    LET y == date.year - 1
    IN  365 * y + (y \div 4) - (y \div 100) + (y \div 400)
          + DaysBeforeMonth(date.year, date.month) + date.date

MsOfDay(date) ==
    ((date.hours * 60 + date.minutes) * 60 + date.seconds) * 1000 + date.ms

getTime(date) == <<DayNumber(date), MsOfDay(date)>>

\* t1 > t2 on getTime() values
TimeGreater(t1, t2) == t1[1] > t2[1] \/ (t1[1] = t2[1] /\ t1[2] > t2[2])

(***************************************************************************)
(* albums.ts                                                               *)
(***************************************************************************)
\* albumName.match(/^(\d{8})/)
MatchDatePrefix(folderName) ==
    /\ Len(folderName) >= 8
    /\ \A i \in 1..8 : folderName[i] \in Digits

\* parseAlbumDate that reports no prefix when it rejects the date
parseAlbumDateNoPrefix(folderName) ==
    IF ~MatchDatePrefix(folderName)
    THEN [date |-> Null, dateString |-> Null, isValid |-> FALSE]
    ELSE
      LET dateString == SubSeq(folderName, 1, 8)
          year  == parseInt(SubSeq(dateString, 1, 4))
          month == parseInt(SubSeq(dateString, 5, 6))
          day   == parseInt(SubSeq(dateString, 7, 8))
          date  == NewDate(year, month - 1, day, 0, 0, 0, 0)
      IN  IF \/ year < 1900 \/ year > 2100 \/ month < 1 \/ month > 12
             \/ day < 1 \/ day > 31
             \/ date.year # year \/ date.month # month - 1 \/ date.date # day
          THEN [date |-> Null, dateString |-> Null, isValid |-> FALSE]
          ELSE [date |-> date, dateString |-> dateString, isValid |-> TRUE]

parseAlbumDate(folderName) ==
    IF ~MatchDatePrefix(folderName)
    THEN [date |-> Null, dateString |-> Null, isValid |-> FALSE]
    ELSE
      LET dateString == SubSeq(folderName, 1, 8)
          year  == parseInt(SubSeq(dateString, 1, 4))
          month == parseInt(SubSeq(dateString, 5, 6))
          day   == parseInt(SubSeq(dateString, 7, 8))
      IN  IF year < 1900 \/ year > 2100 \/ month < 1 \/ month > 12
               \/ day < 1 \/ day > 31
          THEN [date |-> Null, dateString |-> dateString, isValid |-> FALSE]
          ELSE
            LET date == NewDate(year, month - 1, day, 0, 0, 0, 0)
            IN  IF date.year # year \/ date.month # month - 1 \/ date.date # day
                THEN [date |-> Null, dateString |-> dateString, isValid |-> FALSE]
                ELSE [date |-> date, dateString |-> dateString, isValid |-> TRUE]

datesMatch(date1, date2) ==
    IF date1 = Null \/ date2 = Null THEN FALSE
    ELSE /\ date1.year = date2.year
         /\ date1.month = date2.month
         /\ date1.date = date2.date

\* categorizePhotoDate that takes two dates for equal only at the same instant
categorizePhotoDateByTime(aDate, photoDate) ==
    IF photoDate = Null THEN "missingExif"
    ELSE IF getTime(photoDate) = getTime(aDate) THEN "correct"
    ELSE IF TimeGreater(getTime(photoDate), getTime(aDate)) THEN "futureDate"
    ELSE "pastDate"

categorizePhotoDate(aDate, photoDate) ==
    IF photoDate = Null THEN "missingExif"
    ELSE IF datesMatch(aDate, photoDate) THEN "correct"
    ELSE IF TimeGreater(getTime(photoDate), getTime(aDate)) THEN "futureDate"
    ELSE "pastDate"

getSupportedImageExtensions ==
    { <<".", "j", "p", "g">>, <<".", "j", "p", "e", "g">>,
      <<".", "J", "P", "G">>, <<".", "J", "P", "E", "G">> }

isSupportedImageFile(filename) ==
    \E ext \in getSupportedImageExtensions : endsWith(filename, ext)

\* String.prototype.toLowerCase on the letters file names use
LowerChar(c) ==
    CASE c = "J" -> "j" [] c = "P" -> "p" [] c = "G" -> "g" [] c = "E" -> "e"
      [] c = "N" -> "n" [] c = "A" -> "a" [] c = "B" -> "b" [] c = "C" -> "c"
      [] OTHER -> c

toLowerCase(s) == [i \in 1..Len(s) |-> LowerChar(s[i])]

ImageExtensions ==
    { <<".", "j", "p", "g">>, <<".", "j", "p", "e", "g">>,
      <<".", "p", "n", "g">>, <<".", "g", "i", "f">>,
      <<".", "b", "m", "p">>, <<".", "w", "e", "b", "p">>,
      <<".", "h", "e", "i", "c">>, <<".", "h", "e", "i", "f">>,
      <<".", "t", "i", "f", "f">>, <<".", "t", "i", "f">> }

\* the extension test of getImageFiles
IsImageLike(name) ==
    \E ext \in ImageExtensions : endsWith(toLowerCase(name), ext)

\* a.localeCompare(b) < 0 on the names the model uses: digits before letters,
\* letters in alphabetical order with lower case before upper case.
Alphabet ==
    << " ", ".", "0", "1", "2", "3", "4", "5", "6", "7", "8", "9",
       "a", "A", "b", "B", "c", "C", "e", "E", "f", "g", "G", "h", "i", "j", "J",
       "m", "M", "n", "N", "p", "P", "r", "R", "s", "t", "T", "w", "x" >>

CharRank(c) == CHOOSE i \in 1..Len(Alphabet) : Alphabet[i] = c

RECURSIVE localeLess(_, _)
localeLess(a, b) ==
    IF Len(b) = 0 THEN FALSE
    ELSE IF Len(a) = 0 THEN TRUE
    ELSE IF a[1] # b[1] THEN CharRank(a[1]) < CharRank(b[1])
    ELSE localeLess(Tail(a), Tail(b))

\* Array.prototype.sort by name.localeCompare: the names of a set in order
RECURSIVE SortNames(_)
SortNames(S) ==
    IF S = {} THEN <<>>
    ELSE LET first == CHOOSE x \in S : \A y \in S \ {x} : localeLess(x, y)
         IN  <<first>> \o SortNames(S \ {first})

\* getImageFiles: the image-like files of a directory, sorted by name.
\* A directory is a function from entry names to entries.
getImageFiles(dir) ==
    SortNames({ n \in DOMAIN dir : dir[n].kind = "file" /\ IsImageLike(n) })

\* a check that reports the first directory entry only
checkForNestedDirectoriesFirst(dir) ==
    LET all == SortNames({ n \in DOMAIN dir : dir[n].kind = "directory" })
    IN  IF Len(all) > 1 THEN SubSeq(all, 1, 1) ELSE all

\* checkForNestedDirectories (entries are enumerated in name order)
checkForNestedDirectories(dir) ==
    SortNames({ n \in DOMAIN dir : dir[n].kind = "directory" })

(***************************************************************************)
(* exif.ts                                                                 *)
(***************************************************************************)
\* a best date that prefers the modification time
getBestExifDateModifyFirst(exifData) ==
    IF exifData.modifyDate # Null THEN exifData.modifyDate
    ELSE IF exifData.createDate # Null THEN exifData.createDate
    ELSE exifData.dateTimeOriginal

\* getBestExifDate: dateTimeOriginal || createDate || modifyDate
getBestExifDate(exifData) ==
    IF exifData.dateTimeOriginal # Null THEN exifData.dateTimeOriginal
    ELSE IF exifData.createDate # Null THEN exifData.createDate
    ELSE exifData.modifyDate

\* a formatExifDate that forgets that getMonth() counts from 0
formatExifDateMonthIndex(date) ==
    <<date.year, date.month, date.date, date.hours, date.minutes, date.seconds>>

\* formatExifDate: the fields of "YYYY:MM:DD HH:MM:SS" (milliseconds are dropped)
formatExifDate(date) ==
    <<date.year, date.month + 1, date.date, date.hours, date.minutes, date.seconds>>

\* parseExifDate (inside readExifData): the regular-expression branch
parseExifDate(dateValue) ==
    IF dateValue = Null THEN Null
    ELSE NewDate(dateValue[1], dateValue[2] - 1, dateValue[3],
                 dateValue[4], dateValue[5], dateValue[6], 0)

\* A buggy createTargetDate that keeps the album's midnight when a time exists.
createTargetDateNoTime(aDate, existingExifDate) ==
    [target |-> IF existingExifDate # Null THEN aDate
                ELSE setHours(aDate, 12, 0, 0, 0),
     albumDate |-> aDate]

\* createTargetDate.  The result holds the returned Date and the album Date
\* object as the call leaves it (targetDate is a copy, so it is left alone).
createTargetDate(aDate, existingExifDate) ==
    LET targetDate == aDate   \* new Date(aDate): a copy
    IN  [target |->
            IF existingExifDate # Null
            THEN setHours(targetDate, existingExifDate.hours,
                          existingExifDate.minutes, existingExifDate.seconds,
                          existingExifDate.ms)
            ELSE setHours(targetDate, 12, 0, 0, 0),
         albumDate |-> aDate]

(***************************************************************************)
(* A file is [kind |-> "file", exif |-> Null or the three date tags, each  *)
(* Null or an EXIF date string, img |-> the image data].                   *)
(***************************************************************************)
NoExifData ==
    [dateTimeOriginal |-> Null, createDate |-> Null, modifyDate |-> Null]

\* readExifData.  exifr.parse either decodes the tags of the file (decoded) or
\* throws / finds nothing, and then every date is null.  exifr names the tag
\* DateTimeDigitized "CreateDate" and the 0th-IFD DateTime "ModifyDate".
readExifData(file, decoded) ==
    IF ~decoded \/ file.exif = Null THEN NoExifData
    ELSE [dateTimeOriginal |-> parseExifDate(file.exif.DateTimeOriginal),
          createDate       |-> parseExifDate(file.exif.DateTimeDigitized),
          modifyDate       |-> parseExifDate(file.exif.DateTime)]

(***************************************************************************)
(* routes/main/+page.svelte: the album record and the EXIF breakdown       *)
(***************************************************************************)
\* scanAlbums, the body of the loop up to the album object: the record of one
\* album folder `name` whose directory is `dir`.
NewAlbum(name, dir) ==
    LET parsedDate == parseAlbumDate(name)
        imageFiles == getImageFiles(dir)
        nestedDirs == checkForNestedDirectories(dir)
        supportedFiles == SelectSeq(imageFiles, isSupportedImageFile)
        unsupportedFiles ==
            SelectSeq(imageFiles, LAMBDA f : ~isSupportedImageFile(f))
        w1 == IF ~parsedDate.isValid
              THEN << <<"Invalid album name format (expected YYYYMMdd)">> >>
              ELSE <<>>
        w2 == IF Len(nestedDirs) > 0
              THEN << <<"Contains nested folders: ", nestedDirs>> >> ELSE <<>>
        w3 == IF Len(unsupportedFiles) > 0
              THEN << <<Len(unsupportedFiles), " unsupported file(s)">> >>
              ELSE <<>>
    IN  [handle |-> name,
         name |-> name,
         parsedDate |-> parsedDate.date,
         dateString |-> parsedDate.dateString,
         isValidFormat |-> parsedDate.isValid,
         warnings |-> w1 \o w2 \o w3,
         photoCount |-> Len(imageFiles),
         supportedPhotoCount |-> Len(supportedFiles),
         unsupportedPhotoCount |-> Len(unsupportedFiles),
         hasNestedDirectories |-> Len(nestedDirs) > 0,
         nestedDirectoryNames |-> nestedDirs,
         status |-> "unknown"]

toDateOnly(d) == NewDate(d.year, d.month, d.date, 0, 0, 0, 0)

\* The hours the local clock is ahead of standard time: a zone whose summer
\* time runs from the start of April to the end of October.
DstHours(date) == IF date.month \in 3..9 THEN 1 ELSE 0

\* Date.prototype.getTime in minutes (the seconds are dropped)
MinutesOf(date) ==
    (DayNumber(date) * 24 + date.hours - DstHours(date)) * 60 + date.minutes

\* Math.round(ms / (1000 * 60 * 60 * 24)): floor(x + 0.5)
RoundedDays(minutes) == (2 * minutes + 1440) \div 2880

\* a day gap taken between the instants, without toDateOnly
daysBetweenByTime(a, b) == RoundedDays(MinutesOf(a) - MinutesOf(b))

\* daysBetween: the rounded difference of the two local midnights
daysBetween(a, b) ==
    RoundedDays(MinutesOf(toDateOnly(a)) - MinutesOf(toDateOnly(b)))

\* the gap of the photo looked at last, whatever the gaps before it
TakeLatter(a, b) == b

Max(a, b) == IF a >= b THEN a ELSE b

Abs(x) == IF x < 0 THEN 0 - x ELSE x

\* an analysis that looks at a sample of one photo
NewPhotoStatusSampled(allFiles) ==
    [correct |-> 0, earlierCount |-> 0, laterCount |-> 0, missingExif |-> 0,
     unsupported |-> 0, totalAnalyzed |-> IF Len(allFiles) > 1 THEN 1 ELSE Len(allFiles),
     earliestExifDate |-> Null, latestExifDate |-> Null,
     maxEarlierDays |-> 0, maxLaterDays |-> 0, severity |-> "good"]

\* analyzeAlbumExifStatus: the initial photoStatus object
NewPhotoStatus(allFiles) ==
    [correct |-> 0, earlierCount |-> 0, laterCount |-> 0, missingExif |-> 0,
     unsupported |-> 0, totalAnalyzed |-> Len(allFiles),
     earliestExifDate |-> Null, latestExifDate |-> Null,
     maxEarlierDays |-> 0, maxLaterDays |-> 0, severity |-> "good"]

\* analyzeAlbumExifStatus: the body of the loop for one file whose best EXIF
\* date is exifDate
AnalyzePhoto(photoStatus, parsedDate, exifDate) ==
    LET category == categorizePhotoDate(parsedDate, exifDate)
    IN  CASE category = "correct" ->
               [photoStatus EXCEPT !.correct = @ + 1]
          [] category = "futureDate" ->
               [photoStatus EXCEPT
                  !.laterCount = @ + 1,
                  !.latestExifDate =
                      IF @ = Null \/ TimeGreater(getTime(exifDate), getTime(@))
                      THEN exifDate ELSE @,
                  !.maxLaterDays = Max(@, Abs(daysBetween(exifDate, parsedDate)))]
          [] category = "pastDate" ->
               [photoStatus EXCEPT
                  !.earlierCount = @ + 1,
                  !.earliestExifDate =
                      IF @ = Null \/ TimeGreater(getTime(@), getTime(exifDate))
                      THEN exifDate ELSE @,
                  !.maxEarlierDays = Max(@, Abs(daysBetween(parsedDate, exifDate)))]
          [] category = "missingExif" ->
               [photoStatus EXCEPT !.missingExif = @ + 1]

\* an analysis that leaves a photo whose read threw out of the counts
AnalyzeFailedUncounted(photoStatus) == photoStatus

\* analyzeAlbumExifStatus: the catch of the loop body (getFile threw)
AnalyzeFailed(photoStatus) == [photoStatus EXCEPT !.missingExif = @ + 1]

\* a severity whose thresholds are reached at 30 and at 7 days
WithSeverityInclusive(photoStatus) ==
    LET maxDiff == Max(photoStatus.maxEarlierDays, photoStatus.maxLaterDays)
    IN  [photoStatus EXCEPT !.severity =
            IF maxDiff >= 30 THEN "error"
            ELSE IF maxDiff >= 7 \/ photoStatus.missingExif > 0 THEN "warning"
            ELSE "good"]

\* analyzeAlbumExifStatus: "Determine severity"
WithSeverity(photoStatus) ==
    LET maxDiff == Max(photoStatus.maxEarlierDays, photoStatus.maxLaterDays)
    IN  [photoStatus EXCEPT !.severity =
            IF maxDiff > 30 THEN "error"
            ELSE IF maxDiff > 7 \/ photoStatus.missingExif > 0 THEN "warning"
            ELSE "good"]

\* The breakdown of a whole analysis in which every read and decode succeeds:
\* the loop over allFiles[i..], then the severity.
RECURSIVE AnalyzeFrom(_, _, _, _, _)
AnalyzeFrom(photoStatus, parsedDate, dir, allFiles, i) ==
    IF i > Len(allFiles) THEN WithSeverity(photoStatus)
    ELSE AnalyzeFrom(
           AnalyzePhoto(photoStatus, parsedDate,
                        getBestExifDate(readExifData(dir[allFiles[i]], TRUE))),
           parsedDate, dir, allFiles, i + 1)

(***************************************************************************)
(* stores/albumStore.ts                                                    *)
(* lastScanTime null is 0: the code only tests it for truthiness.          *)
(***************************************************************************)
fiveMinutes == 5 * 60 * 1000

\* getAlbums that still answers at exactly five minutes
getAlbumsInclusive(currentRootName) ==
    IF /\ albumCache.rootFolderName = currentRootName
       /\ albumCache.lastScanTime # 0
       /\ (now - albumCache.lastScanTime) <= fiveMinutes
       /\ Len(albumCache.albums) > 0
    THEN albumCache.albums
    ELSE Null

getAlbums(currentRootName) ==
    IF /\ albumCache.rootFolderName = currentRootName
       /\ albumCache.lastScanTime # 0
       /\ (now - albumCache.lastScanTime) < fiveMinutes
       /\ Len(albumCache.albums) > 0
    THEN albumCache.albums
    ELSE Null

\* the value setAlbums assigns to albumCache
setAlbums(list, rootFolderName) ==
    [albums |-> list, lastScanTime |-> now, rootFolderName |-> rootFolderName]

\* the value clearCache assigns to albumCache
clearCache == [albums |-> <<>>, lastScanTime |-> 0, rootFolderName |-> Null]

\* { ...record, ...updates }
Spread(record, updates) ==
    [f \in DOMAIN record \cup DOMAIN updates |->
        IF f \in DOMAIN updates THEN updates[f] ELSE record[f]]

\* albums.findIndex(album => album.name === albumName); 0 stands for -1
findIndex(list, name) ==
    IF \E i \in 1..Len(list) : list[i].name = name
    THEN CHOOSE i \in 1..Len(list) :
           /\ list[i].name = name
           /\ \A j \in 1..(i - 1) : list[j].name # name
    ELSE 0

\* an updateAlbum that also restarts the age of the cache
updateAlbumRefreshing(cache, name, updates) ==
    LET index == findIndex(cache.albums, name)
    IN  IF index # 0
        THEN [cache EXCEPT !.albums[index] = Spread(@, updates),
                           !.lastScanTime = now]
        ELSE cache

\* the value of albumCache after updateAlbum
updateAlbum(cache, name, updates) ==
    LET index == findIndex(cache.albums, name)
    IN  IF index # 0
        THEN [cache EXCEPT !.albums[index] = Spread(@, updates)]
        ELSE cache

(***************************************************************************)
(* Sample data: names, files and folders                                    *)
(***************************************************************************)
RootNames == { <<"R">>, <<"S">> }

NameTrip == <<"2", "0", "2", "0", "0", "6", "1", "5", " ", "T">>
NameJune == <<"2", "0", "2", "0", "0", "6", "2", "0">>
NameMisc == <<"M", "i", "s", "c">>

FileA == <<"a", ".", "j", "p", "g">>
FileB == <<"b", ".", "J", "P", "G">>
FileC == <<"c", ".", "p", "n", "g">>

\* a file whose three date tags all hold the EXIF date string d
Tagged(d) ==
    [kind |-> "file",
     exif |-> [DateTimeOriginal |-> d, DateTimeDigitized |-> d, DateTime |-> d],
     img |-> 1]

\* a file without EXIF data
Untagged == [kind |-> "file", exif |-> Null, img |-> 1]

DirTrip ==
    (FileA :> Tagged(<<2020, 6, 20, 12, 0, 0>>)) @@ (FileB :> Untagged)
      @@ (FileC :> Untagged)

DirJune == (FileA :> Tagged(<<2020, 6, 20, 23, 59, 59>>))

\* the breakdown analyzeAlbumExifStatus attaches to the album `name` of `dir`
BreakdownOf(name, dir) ==
    LET allFiles == SelectSeq(getImageFiles(dir), isSupportedImageFile)
    IN  AnalyzeFrom(NewPhotoStatus(allFiles), parseAlbumDate(name).date,
                    dir, allFiles, 1)

(***************************************************************************)
(* The album store on its own: any caller, any order of calls              *)
(***************************************************************************)
MaxTicks == 3

TickSteps == {1, fiveMinutes - 1, fiveMinutes}

SampleAlbums == { NewAlbum(NameTrip, DirTrip), NewAlbum(NameJune, DirJune) }

SampleLists ==
    {<<>>} \cup { <<a>> : a \in SampleAlbums }
           \cup { <<a, b>> : a \in SampleAlbums, b \in SampleAlbums }

SampleUpdates ==
    { [name |-> NameTrip,
       updates |-> [photoStatus |-> BreakdownOf(NameTrip, DirTrip)]],
      [name |-> NameMisc,
       updates |-> [photoStatus |-> BreakdownOf(NameTrip, DirTrip)]] }

CacheInit ==
    /\ FnUnused
    /\ PageUnused
    /\ MainUnused
    /\ RefUnused
    /\ LogUnused
    /\ albumCache = clearCache
    /\ now = 1
    /\ storeTrace = [call |-> Null, lastSetAt |-> 0, cleared |-> FALSE, ticks |-> 0]

CacheSetAlbums ==
    \E list \in SampleLists, r \in RootNames :
        /\ albumCache' = setAlbums(list, r)
        /\ storeTrace' = [storeTrace EXCEPT
              !.call = [op |-> "setAlbums", albums |-> list, root |-> r],
              !.lastSetAt = now, !.cleared = FALSE]
        /\ UNCHANGED <<fnVars, refVars, logVars, loading, pageVars, mainVars,
                       now>>

CacheClearCache ==
    /\ albumCache' = clearCache
    /\ storeTrace' = [storeTrace EXCEPT
          !.call = [op |-> "clearCache"], !.cleared = TRUE]
    /\ UNCHANGED <<fnVars, refVars, logVars, loading, pageVars, mainVars, now>>

CacheUpdateAlbum ==
    \E u \in SampleUpdates :
        /\ albumCache' = updateAlbum(albumCache, u.name, u.updates)
        /\ storeTrace' = [storeTrace EXCEPT
              !.call = [op |-> "updateAlbum", name |-> u.name]]
        /\ UNCHANGED <<fnVars, refVars, logVars, loading, pageVars, mainVars,
                       now>>

\* time passes
CacheTick ==
    \E dt \in TickSteps :
        /\ storeTrace.ticks < MaxTicks
        /\ now' = now + dt
        /\ storeTrace' = [storeTrace EXCEPT !.call = Null, !.ticks = @ + 1]
        /\ UNCHANGED <<fnVars, refVars, logVars, loading, pageVars, mainVars,
                       albumCache>>

CacheNext ==
    \/ CacheSetAlbums
    \/ CacheClearCache
    \/ CacheUpdateAlbum
    \/ CacheTick

SpecCache == CacheInit /\ [][CacheNext]_vars

AllMiss == \A r \in RootNames : getAlbums(r) = Null

\* C5: getAlbums(root) returns the stored list exactly when the stored root is
\* root, less than five minutes have passed since the last setAlbums and the
\* stored list is not empty; otherwise it returns null.
C5_LookupHitIff ==
    \A r \in RootNames :
        LET hit == /\ albumCache.rootFolderName = r
                   /\ now - storeTrace.lastSetAt < fiveMinutes
                   /\ Len(albumCache.albums) > 0
        IN  /\ hit => getAlbums(r) = albumCache.albums
            /\ ~hit => getAlbums(r) = Null

C5_Witness ==
    /\ now - storeTrace.lastSetAt = fiveMinutes - 1
    /\ \E r \in RootNames : getAlbums(r) # Null /\ Len(getAlbums(r)) = 2
    /\ \E r \in RootNames : getAlbums(r) = Null

\* C6: right after setAlbums(list, r) with a non-empty list getAlbums(r) is that
\* list; after clearCache every lookup misses until the next setAlbums; five
\* minutes or more after the last setAlbums every lookup misses until the next
\* setAlbums, whatever updateAlbum calls came in between.
C6_StoreLookupLifecycle ==
    /\ (/\ storeTrace.call # Null
        /\ storeTrace.call.op = "setAlbums"
        /\ Len(storeTrace.call.albums) > 0)
          => getAlbums(storeTrace.call.root) = storeTrace.call.albums
    /\ storeTrace.cleared => AllMiss
    /\ (storeTrace.lastSetAt # 0 /\ now - storeTrace.lastSetAt >= fiveMinutes)
          => AllMiss

C6_Witness ==
    /\ storeTrace.lastSetAt # 0
    /\ now - storeTrace.lastSetAt >= fiveMinutes
    /\ ~storeTrace.cleared
    /\ storeTrace.call # Null
    /\ storeTrace.call.op = "updateAlbum"
    /\ \E i \in 1..Len(albumCache.albums) :
          "photoStatus" \in DOMAIN albumCache.albums[i]

(***************************************************************************)
(* Pure-function harness: createTargetDate                                 *)
(***************************************************************************)
AlbumDates ==
    { NewDate(2020, 5, 15, 0, 0, 0, 0), NewDate(2020, 1, 29, 0, 0, 0, 0),
      NewDate(1999, 11, 31, 0, 0, 0, 0) }

ExistingDates ==
    { NewDate(y, m, d, h, 59, s, ms) :
        y \in {2020, 2021}, m \in {5, 11}, d \in {15, 20},
        h \in {0, 12, 23}, s \in {0, 59}, ms \in {0, 999} }

TargetInit ==
    /\ fnIn \in [albumDate : AlbumDates, existing : ExistingDates \cup {Null}]
    /\ fnOut = Null
    /\ StoreUnused
    /\ PageUnused
    /\ MainUnused
    /\ RefUnused
    /\ LogUnused

TargetCall ==
    /\ fnOut = Null
    /\ fnOut' = createTargetDate(fnIn.albumDate, fnIn.existing)
    /\ UNCHANGED <<fnIn, storeVars, pageVars, mainVars, refVars, logVars>>

TargetNext == TargetCall

SpecTarget == TargetInit /\ [][TargetNext]_vars

isJpegByName(name) ==
    \/ endsWith(toLowerCase(name), <<".", "j", "p", "g">>)
    \/ endsWith(toLowerCase(name), <<".", "j", "p", "e", "g">>)

\* a write that sets the capture tag only and leaves the other two as they were
InsertExifCaptureOnly(dataUrl, formatted) ==
    [dataUrl EXCEPT !.exif =
        [DateTimeOriginal |-> formatted,
         DateTimeDigitized |-> IF @ = Null THEN Null ELSE @.DateTimeDigitized,
         DateTime |-> IF @ = Null THEN Null ELSE @.DateTime]]

\* writeExifData, lines 171-192: the bytes written back are the bytes read
\* with the three date tags set to the formatted target date.
InsertExif(dataUrl, formatted) ==
    [dataUrl EXCEPT !.exif =
        [DateTimeOriginal |-> formatted, DateTimeDigitized |-> formatted,
         DateTime |-> formatted]]

(***************************************************************************)
(* services/logger.ts: LoggerService                                       *)
(* An entry is its id and its level; the layout subscribes one listener,   *)
(* which keeps the snapshot it is called with.                             *)
(***************************************************************************)
MAX_LOGS == 100

MaxLogCalls == 102

\* Array.prototype.slice(-n)
SliceLast(list, n) ==
    IF Len(list) > n THEN SubSeq(list, Len(list) - n + 1, Len(list)) ELSE list

LogInit ==
    /\ FnUnused
    /\ StoreUnused
    /\ PageUnused
    /\ MainUnused
    /\ RefUnused
    /\ logs = <<>>
    /\ idCounter = 0
    /\ listeners = 0
    /\ delivered = <<>>

LogRest == UNCHANGED <<fnVars, storeVars, pageVars, mainVars, refVars>>

\* notifyListeners: every listener is called with a copy of `list`
notifyListeners(list) ==
    delivered' = IF listeners > 0 THEN list ELSE delivered

\* subscribe, called by onMount of the layout
LogSubscribe ==
    /\ listeners = 0
    /\ listeners' = 1
    /\ UNCHANGED <<logs, idCounter, delivered>>
    /\ LogRest

\* log: the entry is pushed, the listeners are notified, then the array is
\* cut to its last MAX_LOGS entries
LoggerLog(level) ==
    /\ idCounter < MaxLogCalls
    /\ idCounter' = idCounter + 1
    /\ \E pushed \in { Append(logs, [id |-> idCounter + 1, level |-> level]) } :
          /\ notifyListeners(pushed)
          /\ logs' = IF Len(pushed) > MAX_LOGS
                     THEN SliceLast(pushed, MAX_LOGS) ELSE pushed
    /\ UNCHANGED listeners
    /\ LogRest

\* clear
LoggerClear ==
    /\ logs # <<>>
    /\ logs' = <<>>
    /\ notifyListeners(<<>>)
    /\ UNCHANGED <<idCounter, listeners>>
    /\ LogRest

LogNext ==
    \/ LogSubscribe
    \/ LoggerLog("info")
    \/ LoggerClear

SpecLog == LogInit /\ [][LogNext]_vars

\* the entries of list are the ones logged last, in the order of the calls
MostRecent(list) ==
    \A i \in 1..Len(list) : list[i].id = idCounter - Len(list) + i

\* C36: the stored log and the snapshot the listener holds have at most 100
\* entries each, the most recent ones in the order they were logged.
C36_LastHundred ==
    /\ Len(logs) <= MAX_LOGS
    /\ MostRecent(logs)
    /\ Len(delivered) <= MAX_LOGS
    /\ listeners > 0 /\ delivered # <<>> => MostRecent(delivered)

(***************************************************************************)
(* routes/album/[name]/+page.svelte                                        *)
(***************************************************************************)
RootName == <<"R">>

\* loadAlbumPhotos, "Determine status": the classification of the audit
AuditStatus(isSupported, aDate, exifDate) ==
    IF ~isSupported THEN "unsupported"
    ELSE IF aDate # Null /\ exifDate # Null
         THEN (IF datesMatch(aDate, exifDate) THEN "correct" ELSE "incorrect")
    ELSE "unknown"

\* loadAlbumPhotos, lines 102-123: the warnings of the audit
AuditWarnings(isSupported, exifDate) ==
    IF ~isSupported THEN <<"Unsupported file type for EXIF writing">>
    ELSE IF exifDate = Null THEN <<"No EXIF date found">>
    ELSE <<>>

\* fixPhotoExifDate, line 356: the status of the updated record
FixedStatus(aDate, newDate) ==
    IF aDate # Null /\ newDate # Null
       /\ aDate.year = newDate.year /\ aDate.month = newDate.month
       /\ aDate.date = newDate.date
    THEN "correct" ELSE "incorrect"

\* loadAlbumPhotos, the body of the loop: the Photo of file `name` of `dir`;
\* decoded tells whether exifr could decode it.
LoadPhoto(dir, name, aDate, decoded) ==
    LET isSupported == isSupportedImageFile(name)
        exifDate == IF isSupported
                    THEN getBestExifDate(readExifData(dir[name], decoded))
                    ELSE Null
    IN  [handle |-> name, name |-> name, isSupported |-> isSupported,
         exifDate |-> exifDate,
         status |-> AuditStatus(isSupported, aDate, exifDate),
         warnings |-> AuditWarnings(isSupported, exifDate)]

\* whether the file a photo handle names is still there
Exists(name) ==
    /\ albumName \in DOMAIN disk
    /\ name \in DOMAIN disk[albumName]

IdleFix == [pc |-> "idle"]

Log(level, message, details) == [level |-> level, message |-> message]

\* the finished call i of fixPhotoExifDate, appended to the history
Finished(i, ok, newDate, status) ==
    Append(fixLog,
        [name |-> fixes[i].photo.name, ok |-> ok,
         written |-> IF fixes[i].pc = "written"
                     THEN formatExifDate(fixes[i].target) ELSE Null,
         newDate |-> newDate, status |-> status,
         clean |-> fixes[i].clean, alone |-> fixes[i].alone,
         run |-> fixes[i].run])

\* scanAlbums, lines 119-124: compare(a, b) < 0
albumBefore(a, b) ==
    IF a.parsedDate # Null /\ b.parsedDate # Null
    THEN TimeGreater(getTime(a.parsedDate), getTime(b.parsedDate))
    ELSE localeLess(a.name, b.name)

\* Array.prototype.sort with that comparator, as V8 (the engine of the
\* browsers that have the File System Access API) sorts an array of less than
\* 64 elements: the leading run, which is reversed if it is strictly
\* descending, then a binary insertion of each element after it.  With a
\* comparator that is a consistent order this is any stable sort.
RECURSIVE RunLength(_, _, _)
RunLength(list, isDescending, n) ==
    IF n = Len(list) THEN n
    ELSE IF albumBefore(list[n + 1], list[n]) = isDescending
         THEN RunLength(list, isDescending, n + 1)
         ELSE n

Reverse(list) == [i \in 1..Len(list) |-> list[Len(list) + 1 - i]]

\* the number of elements of sorted that stay before the pivot
RECURSIVE InsertionPoint(_, _, _, _)
InsertionPoint(sorted, pivot, left, right) ==
    IF left >= right THEN left
    ELSE LET mid == left + ((right - left) \div 2)
         IN  IF albumBefore(pivot, sorted[mid + 1])
             THEN InsertionPoint(sorted, pivot, left, mid)
             ELSE InsertionPoint(sorted, pivot, mid + 1, right)

InsertAlbum(sorted, a) ==
    LET left == InsertionPoint(sorted, a, 0, Len(sorted))
    IN  SubSeq(sorted, 1, left) \o <<a>> \o SubSeq(sorted, left + 1, Len(sorted))

RECURSIVE InsertFrom(_, _, _)
InsertFrom(sorted, list, start) ==
    IF start > Len(list) THEN sorted
    ELSE InsertFrom(InsertAlbum(sorted, list[start]), list, start + 1)

SortAlbums(list) ==
    IF Len(list) < 2 THEN list
    ELSE LET isDescending == albumBefore(list[2], list[1])
             run == RunLength(list, isDescending, 2)
             first == SubSeq(list, 1, run)
         IN  InsertFrom(IF isDescending THEN Reverse(first) ELSE first,
                        list, run + 1)

\* The cache a finished main-page scan of the root folder d leaves behind, at
\* the time `now`: every album in sorted order, with the breakdown of every
\* album that has a valid name and a supported photo.
ScannedAlbum(name, dir) ==
    LET a == NewAlbum(name, dir)
    IN  IF a.isValidFormat /\ a.supportedPhotoCount > 0
        THEN Spread(a, [photoStatus |-> BreakdownOf(name, dir)])
        ELSE a

ScannedCache(d) ==
    LET names == SortNames(DOMAIN d)
    IN  setAlbums(SortAlbums([k \in 1..Len(names) |->
                                 ScannedAlbum(names[k], d[names[k]])]),
                  RootName)

MaxFixes == 2

MaxFixRuns == 2

MaxDecodeFailures == 1

\* whether exifr decodes a read: it may fail, MaxDecodeFailures times in all
Decodes(decoded) ==
    /\ ~decoded => decodeFailures < MaxDecodeFailures
    /\ decodeFailures' = IF decoded THEN decodeFailures ELSE decodeFailures + 1

\* the least call slot that is free
FreeFix(i) == fixes[i].pc = "idle" /\ \A j \in 1..(i - 1) : fixes[j].pc # "idle"

FixIds == 1..MaxFixes

InFlight == { i \in FixIds : fixes[i].pc # "idle" }

TripDirs ==
    { (FileA :> a) @@ (FileB :> Untagged) :
        a \in { Tagged(<<2020, 6, 20, 12, 0, 0>>),
                Tagged(<<2020, 6, 15, 23, 59, 59>>),
                [kind |-> "file",
                 exif |-> [DateTimeOriginal |-> Null, DateTimeDigitized |-> Null,
                           DateTime |-> <<2020, 6, 14, 8, 30, 0>>],
                 img |-> 1] } }

DirMisc == (FileA :> Tagged(<<2020, 6, 20, 12, 0, 0>>))

\* String.prototype.replace(/^\s+/, '')
RECURSIVE TrimStart(_)
TrimStart(s) == IF Len(s) > 0 /\ s[1] = " " THEN TrimStart(Tail(s)) ELSE s

\* confirmRename, lines 279-281: the new name of the album for the date
\* prefix formatYyyyMmDd(selected)
confirmRename(name, prefix) ==
    LET rest == TrimStart(IF MatchDatePrefix(name)
                          THEN SubSeq(name, 9, Len(name)) ELSE name)
    IN  IF MatchDatePrefix(name) THEN prefix \o rest
        ELSE prefix \o <<" ">> \o name

\* the rename popup is confirmed with the 20th of June 2020
RenameTargets == { confirmRename(albumName, NameJune) }

AlbumInit ==
    /\ FnUnused
    /\ MainUnused
    /\ RefUnused
    /\ LogUnused
    /\ disk \in { (NameTrip :> d) @@ (NameMisc :> DirMisc) : d \in TripDirs }
    /\ albumName \in { NameTrip, NameMisc }
    /\ albumDate = Null
    /\ albumDirHandle = Null
    /\ photos = <<>>
    /\ pagePc = "mounted"
    /\ fixes = [i \in FixIds |-> IdleFix]
    /\ fixLog = <<>>
    /\ fixAll = <<>>
    /\ loading = Null
    /\ lastLog = Null
    /\ now = 1
    /\ albumCache = ScannedCache(disk)
    /\ storeTrace = [call |-> Null, lastSetAt |-> now, cleared |-> FALSE, ticks |-> 0]
    /\ decodeFailures = 0

\* loadAlbumPhotos (on mount and from the Reload button)
LoadAlbumPhotos ==
    /\ pagePc \in {"mounted", "loaded"}
    /\ pagePc' = "loaded"
    /\ albumDate' = parseAlbumDate(albumName).date
    /\ IF albumName \notin DOMAIN disk
       THEN /\ albumDirHandle' = Null
            /\ photos' = <<>>
            /\ UNCHANGED decodeFailures
            /\ lastLog' = Log("error", "Failed to load album photos", albumName)
       ELSE LET dir == disk[albumName]
                imageFiles == getImageFiles(dir)
            IN  \E decodedSet \in SUBSET { n \in DOMAIN dir :
                                             isSupportedImageFile(n) } :
                  /\ Cardinality({ n \in DOMAIN dir : isSupportedImageFile(n) }
                                    \ decodedSet)
                        <= MaxDecodeFailures - decodeFailures
                  /\ decodeFailures' = decodeFailures
                        + Cardinality({ n \in DOMAIN dir : isSupportedImageFile(n) }
                                        \ decodedSet)
                  /\ albumDirHandle' = albumName
                  /\ photos' = [k \in 1..Len(imageFiles) |->
                                  LoadPhoto(dir, imageFiles[k], albumDate',
                                            imageFiles[k] \in decodedSet)]
                  /\ lastLog' = Log("success", "Loaded photos", albumName)
    /\ UNCHANGED <<mainVars, fixAll, fnVars, refVars, logVars, loading,
                   storeVars, disk, albumName, fixes, fixLog>>

\* fixPhotoExifDate up to the call of writeExifData (lines 327-340), called
\* with `photo` by the Fix button (run = 0) or by the call `run` of
\* fixAllExifDates; i is the slot the call takes while it is in flight.
fixPhotoExifDate(i, photo, run) ==
    IF albumDate = Null
    THEN /\ lastLog' = Log("error", "Cannot fix EXIF date", "Album date is invalid")
         /\ UNCHANGED <<albumDate, fixes, fixLog, decodeFailures>>
    ELSE IF ~Exists(photo.name)
    THEN /\ lastLog' = Log("error", "Error fixing EXIF date", photo.name)
         /\ fixLog' = Append(fixLog,
               [name |-> photo.name, ok |-> FALSE, written |-> Null,
                newDate |-> Null, status |-> Null, clean |-> FALSE,
                alone |-> InFlight = {}, run |-> run])
         /\ UNCHANGED <<albumDate, fixes, decodeFailures>>
    ELSE \E decoded \in BOOLEAN :
           LET existing == readExifData(disk[albumName][photo.name], decoded)
               currentBest == getBestExifDate(existing)
               call == createTargetDate(albumDate, currentBest)
           IN  /\ Decodes(decoded)
               /\ albumDate' = call.albumDate
               /\ fixes' = [j \in FixIds |->
                     IF j = i
                     THEN [pc |-> "prepared", photo |-> photo,
                           target |-> call.target, dataUrl |-> Null,
                           clean |-> decoded, alone |-> InFlight = {},
                           run |-> run]
                     ELSE IF fixes[j].pc # "idle"
                     THEN [fixes[j] EXCEPT !.alone = FALSE]
                     ELSE fixes[j]]
               /\ lastLog' = Log("info", "Writing EXIF date", photo.name)
               /\ UNCHANGED fixLog

\* a click on the Fix button of photo k, which only a supported photo has
FixPrepare(i, k) ==
    /\ pagePc = "loaded"
    /\ FreeFix(i)
    /\ k \in 1..Len(photos)
    /\ photos[k].isSupported
    /\ Len(fixLog) + Cardinality(InFlight) < MaxFixRuns
    /\ fixPhotoExifDate(i, photos[k], 0)
    /\ UNCHANGED <<mainVars, fixAll, fnVars, refVars, logVars, loading,
                   storeVars, disk, albumName, albumDirHandle, photos, pagePc>>

\* the call i fails: writeExifData returned an error, or a step threw
FixFails(i, message) ==
    /\ fixLog' = Finished(i, FALSE, Null, Null)
    /\ fixes' = [fixes EXCEPT ![i] = IdleFix]
    /\ lastLog' = Log("error", message, fixes[i].photo.name)

\* writeExifData, lines 152-169: the name check and the read of the bytes
FixReadOriginal(i) ==
    /\ fixes[i].pc = "prepared"
    /\ IF ~Exists(fixes[i].photo.name) \/ ~isJpegByName(fixes[i].photo.name)
       THEN FixFails(i, "Failed to write EXIF")
       ELSE /\ fixes' = [fixes EXCEPT ![i].pc = "read",
                           ![i].dataUrl = disk[albumName][fixes[i].photo.name]]
            /\ UNCHANGED <<fixLog, lastLog>>
    /\ UNCHANGED <<mainVars, fixAll, decodeFailures, fnVars, refVars, logVars,
                   loading, storeVars, disk, albumName, albumDate,
                   albumDirHandle, photos, pagePc>>

\* writeExifData, lines 171-199: the tags are set and the file is written back
FixWrite(i) ==
    /\ fixes[i].pc = "read"
    /\ Exists(fixes[i].photo.name)
    /\ disk' = [disk EXCEPT ![albumName][fixes[i].photo.name] =
                  InsertExif(fixes[i].dataUrl, formatExifDate(fixes[i].target))]
    /\ fixes' = [fixes EXCEPT ![i].pc = "written"]
    /\ UNCHANGED <<mainVars, fixAll, decodeFailures, fnVars, refVars, logVars,
                   loading, storeVars, albumName, albumDate, albumDirHandle,
                   photos, pagePc, fixLog, lastLog>>

\* writeExifData, lines 200-205: createWritable, write or close threw
FixWriteFails(i) ==
    /\ fixes[i].pc = "read"
    /\ FixFails(i, "Failed to write EXIF")
    /\ UNCHANGED <<mainVars, fixAll, decodeFailures, fnVars, refVars, logVars,
                   loading, storeVars, disk, albumName, albumDate,
                   albumDirHandle, photos, pagePc>>

\* fixPhotoExifDate after the write (lines 347-360): re-read, replace the record
FixRefresh(i) ==
    /\ fixes[i].pc = "written"
    /\ IF ~Exists(fixes[i].photo.name)
       THEN /\ FixFails(i, "Error fixing EXIF date")
            /\ UNCHANGED <<photos, decodeFailures>>
       ELSE \E decoded \in BOOLEAN :
              LET photo == fixes[i].photo
                  refreshedExif == readExifData(disk[albumName][photo.name], decoded)
                  newDate == getBestExifDate(refreshedExif)
                  updated == Spread(photo,
                      [exifDate |-> newDate,
                       status |-> FixedStatus(albumDate, newDate)])
              IN  /\ Decodes(decoded)
                  /\ photos' = [k \in 1..Len(photos) |->
                        IF photos[k].name = photo.name THEN updated ELSE photos[k]]
                  /\ fixLog' = Append(fixLog,
                        [name |-> photo.name, ok |-> TRUE,
                         written |-> formatExifDate(fixes[i].target),
                         newDate |-> newDate, status |-> updated.status,
                         clean |-> fixes[i].clean /\ decoded,
                         alone |-> fixes[i].alone, run |-> fixes[i].run])
                  /\ fixes' = [fixes EXCEPT ![i] = IdleFix]
                  /\ lastLog' = Log("success", "EXIF date updated", photo.name)
    /\ UNCHANGED <<mainVars, fixAll, fnVars, refVars, logVars, loading,
                   storeVars, disk, albumName, albumDate, albumDirHandle,
                   pagePc>>

\* a function without the key k
Without(f, k) == [x \in DOMAIN f \ {k} |-> f[x]]

\* the store call clearCache made from a page
PageClearsCache ==
    /\ albumCache' = clearCache
    /\ storeTrace' = [storeTrace EXCEPT
          !.call = [op |-> "clearCache"], !.cleared = TRUE]

\* deletePhoto: removeEntry succeeds
DeletePhoto(k) ==
    /\ pagePc = "loaded"
    /\ k \in 1..Len(photos)
    /\ albumDirHandle # Null
    /\ Exists(photos[k].name)
    /\ disk' = [disk EXCEPT ![albumName] = Without(@, photos[k].name)]
    /\ photos' = SelectSeq(photos, LAMBDA p : p.name # photos[k].name)
    /\ lastLog' = Log("success", "Photo deleted", photos[k].name)
    /\ UNCHANGED <<mainVars, fixAll, decodeFailures, fnVars, refVars, logVars,
                   loading, storeVars, albumName, albumDate, albumDirHandle,
                   pagePc, fixes, fixLog>>

\* deletePhoto: removeEntry throws (the file is gone, or the removal fails)
DeletePhotoFails(k) ==
    /\ pagePc = "loaded"
    /\ k \in 1..Len(photos)
    /\ albumDirHandle # Null
    /\ lastLog' = Log("error", "Failed to delete photo", photos[k].name)
    /\ UNCHANGED <<mainVars, fixAll, decodeFailures, fnVars, refVars, logVars,
                   loading, storeVars, disk, albumName, albumDate,
                   albumDirHandle, photos, pagePc, fixes, fixLog>>

\* deleteAlbum: the cache is cleared, then removeEntry succeeds or throws
DeleteAlbum ==
    /\ pagePc \in {"mounted", "loaded"}
    /\ PageClearsCache
    /\ \/ /\ albumName \in DOMAIN disk
          /\ disk' = Without(disk, albumName)
          /\ lastLog' = Log("success", "Album deleted", albumName)
          /\ pagePc' = "left"
       \/ /\ lastLog' = Log("error", "Failed to delete album", albumName)
          /\ UNCHANGED <<disk, pagePc>>
    /\ UNCHANGED <<mainVars, fixAll, decodeFailures, fnVars, refVars, logVars,
                   loading, now, albumName, albumDate, albumDirHandle, photos,
                   fixes, fixLog>>

\* renameAlbum: the cache is cleared; then the folder is moved, or copied file
\* by file (a file whose copy fails is skipped with a warning) and the old
\* folder removed; or a step throws.
RenameAlbum(newName) ==
    /\ pagePc = "loaded"
    /\ albumDirHandle # Null
    /\ PageClearsCache
    /\ \/ /\ albumName \in DOMAIN disk
          /\ newName \notin DOMAIN disk
          /\ \E copied \in SUBSET DOMAIN disk[albumName] :
                disk' = (newName :> [n \in copied |-> disk[albumName][n]])
                          @@ Without(disk, albumName)
          /\ lastLog' = Log("success", "Album renamed", newName)
          /\ pagePc' = "left"
       \/ /\ lastLog' = Log("error", "Failed to rename album", albumName)
          /\ UNCHANGED <<disk, pagePc>>
    /\ UNCHANGED <<mainVars, fixAll, decodeFailures, fnVars, refVars, logVars,
                   loading, now, albumName, albumDate, albumDirHandle, photos,
                   fixes, fixLog>>

AlbumNext ==
    \/ LoadAlbumPhotos
    \/ \E i \in FixIds, k \in 1..Len(photos) : FixPrepare(i, k)
    \/ \E i \in FixIds : FixReadOriginal(i)
    \/ \E i \in FixIds : FixWrite(i)
    \/ \E i \in FixIds : FixWriteFails(i)
    \/ \E i \in FixIds : FixRefresh(i)
    \/ \E k \in 1..Len(photos) : DeletePhoto(k)
    \/ \E k \in 1..Len(photos) : DeletePhotoFails(k)
    \/ DeleteAlbum
    \/ \E newName \in RenameTargets : RenameAlbum(newName)

SpecAlbum == AlbumInit /\ [][AlbumNext]_vars

(***************************************************************************)
(* Claims about the album page                                             *)
(***************************************************************************)
\* C1: whenever a fix has overwritten a photo, a backup copy of the bytes the
\* photo had before the write is in the album folder beside it.
C1_BackupBeforeOverwrite ==
    \A i \in FixIds :
        (fixes[i].pc = "written" /\ albumName \in DOMAIN disk) =>
            \E n \in DOMAIN disk[albumName] \ {fixes[i].photo.name} :
                disk[albumName][n] = fixes[i].dataUrl

\* the calls j - 1 and j of fixPhotoExifDate ran one after the other on the same
\* photo, each on its own and without a failure
InSuccession(j) ==
    /\ j > 1
    /\ fixLog[j].name = fixLog[j - 1].name
    /\ \A r \in {j - 1, j} : fixLog[r].ok /\ fixLog[r].clean /\ fixLog[r].alone

\* C2: a fix that runs without a failure leaves the record 'correct'; a second
\* fix of the same photo right after it leaves it 'correct' again and writes
\* the same date-time value.
C2_FixIdempotent ==
    \A j \in 1..Len(fixLog) :
        /\ (fixLog[j].ok /\ fixLog[j].clean /\ fixLog[j].alone)
              => fixLog[j].status = "correct"
        /\ InSuccession(j) => fixLog[j].written = fixLog[j - 1].written

C2_Witness ==
    /\ Len(fixLog) = 2
    /\ InSuccession(2)
    /\ fixLog[2].status = "correct"
    /\ fixLog[2].written = <<2020, 6, 15, 8, 30, 0>>

\* C3: the status a successful fix puts into the record is the status the
\* audit of loadAlbumPhotos gives to the re-read date, whatever the re-read
\* found.
C3_RefreshUsesAuditStatus ==
    \A j \in 1..Len(fixLog) :
        fixLog[j].ok =>
            fixLog[j].status = AuditStatus(TRUE, albumDate, fixLog[j].newDate)

\* the cache answers with a list that names a folder that is gone or gives a
\* photo count that is no longer the folder's
StaleHit ==
    LET hit == getAlbums(RootName)
    IN  /\ hit # Null
        /\ \E i \in 1..Len(hit) :
              \/ hit[i].name \notin DOMAIN disk
              \/ hit[i].photoCount # Len(getImageFiles(disk[hit[i].name]))

\* C9: when a delete of a photo, a delete of the album or a rename has reported
\* success, the cache no longer answers with the data as it was before.
C9_DestructiveInvalidates ==
    (/\ lastLog # Null
     /\ lastLog.level = "success"
     /\ lastLog.message \in {"Photo deleted", "Album deleted", "Album renamed"})
        => ~StaleHit

\* the cache answers with a breakdown that is not the breakdown of the
\* metadata now on disk
StaleBreakdown ==
    LET hit == getAlbums(RootName)
    IN  /\ hit # Null
        /\ \E i \in 1..Len(hit) :
              /\ "photoStatus" \in DOMAIN hit[i]
              /\ hit[i].name \in DOMAIN disk
              /\ hit[i].photoStatus # BreakdownOf(hit[i].name, disk[hit[i].name])

\* C10: when a fix has reported success, the cache no longer answers with a
\* breakdown computed from the metadata as it was before the fix.
C10_FixInvalidates ==
    (lastLog # Null /\ lastLog.message = "EXIF date updated") => ~StaleBreakdown

\* C29: the record a successful fix puts into the list has its warnings
\* recomputed from the re-read file like its capture date: every record of
\* the list carries the warnings the audit gives to its capture date, so that
\* 'No EXIF date found' is gone once the photo has a date.
C29_RefreshRecomputesWarnings ==
    \A k \in 1..Len(photos) :
        photos[k].warnings
            = AuditWarnings(photos[k].isSupported, photos[k].exifDate)

\* the three date tags of the file `name` of the album folder
DateTags(name) ==
    LET e == disk[albumName][name].exif
    IN  IF e = Null THEN <<Null, Null, Null>>
        ELSE <<e.DateTimeOriginal, e.DateTimeDigitized, e.DateTime>>

\* C31: after a successful write the file carries the same value in
\* DateTimeOriginal, DateTimeDigitized and the 0th-IFD DateTime, whatever tags
\* it had before; when no other fix was in flight that value is the formatted
\* target date of the call.
C31_ThreeTagsEqual ==
    \A i \in FixIds :
        (fixes[i].pc = "written" /\ Exists(fixes[i].photo.name)) =>
            LET tags == DateTags(fixes[i].photo.name)
            IN  /\ tags[1] # Null
                /\ tags[1] = tags[2]
                /\ tags[2] = tags[3]
                /\ fixes[i].alone => tags[1] = formatExifDate(fixes[i].target)

\* a file that had only the 0th-IFD DateTime has been written
C31_Witness ==
    \E i \in FixIds :
        /\ fixes[i].pc = "written"
        /\ fixes[i].alone
        /\ Exists(fixes[i].photo.name)
        /\ fixes[i].dataUrl.exif # Null
        /\ fixes[i].dataUrl.exif.DateTimeOriginal = Null
        /\ fixes[i].dataUrl.exif.DateTime = <<2020, 6, 14, 8, 30, 0>>
        /\ DateTags(fixes[i].photo.name)
              = << <<2020, 6, 15, 8, 30, 0>>, <<2020, 6, 15, 8, 30, 0>>,
                   <<2020, 6, 15, 8, 30, 0>> >>

\* C37: a rename that reports success loses no photo: the folder that appears
\* under the new name holds every file the old folder held, with the same
\* content.
C37_RenameKeepsPhotos ==
    [][(/\ pagePc = "loaded"
        /\ pagePc' = "left"
        /\ lastLog' # Null
        /\ lastLog'.message = "Album renamed")
          => \E newName \in DOMAIN disk' \ DOMAIN disk :
                disk'[newName] = disk[albumName]]_vars

(***************************************************************************)
(* routes/album/[name]/+page.svelte: fixAllExifDates                       *)
(* fixAll[r] is the r-th call of fixAllExifDates: its targets, the index   *)
(* of the target the loop takes next, and, as history, the list of photos  *)
(* the page showed when the button was clicked.  A call of                 *)
(* fixPhotoExifDate made by the loop of call r carries run = r.            *)
(***************************************************************************)
MaxFixAllRuns == 1

Names(list) == [k \in 1..Len(list) |-> list[k].name]

\* the calls of fixPhotoExifDate in flight that the loop of call r made
InFlightOf(r) == { i \in FixIds : fixes[i].pc # "idle" /\ fixes[i].run = r }

\* a loop that does not wait for the call it made
FixNotAwaited(r) == TRUE

\* `await fixPhotoExifDate(photo)`, line 374: the call of the loop has returned
FixAwaited(r) == InFlightOf(r) = {}

FixAllInit ==
    /\ FnUnused
    /\ MainUnused
    /\ RefUnused
    /\ LogUnused
    /\ disk = (NameTrip :> DirTrip) @@ (NameMisc :> DirMisc)
    /\ albumName \in { NameTrip, NameMisc }
    /\ albumDate = Null
    /\ albumDirHandle = Null
    /\ photos = <<>>
    /\ pagePc = "mounted"
    /\ fixes = [i \in FixIds |-> IdleFix]
    /\ fixLog = <<>>
    /\ fixAll = <<>>
    /\ loading = Null
    /\ lastLog = Null
    /\ now = 1
    /\ albumCache = ScannedCache(disk)
    /\ storeTrace = [call |-> Null, lastSetAt |-> now, cleared |-> FALSE, ticks |-> 0]
    /\ decodeFailures = 0

\* fixAllExifDates, lines 366-372: the click on the button
FixAllStart ==
    /\ pagePc = "loaded"
    /\ Len(fixAll) < MaxFixAllRuns
    /\ IF albumDate = Null
       THEN /\ lastLog' = Log("error", "Cannot fix EXIF dates", "Album date is invalid")
            /\ UNCHANGED fixAll
       ELSE /\ fixAll' = Append(fixAll,
                  [pc |-> "running",
                   targets |-> SelectSeq(photos, LAMBDA p : p.isSupported),
                   next |-> 1, shown |-> photos])
            /\ lastLog' = Log("info", "Fixing EXIF dates for album", albumName)
    /\ UNCHANGED <<mainVars, fnVars, refVars, logVars, loading, storeVars,
                   disk, albumName, albumDate, albumDirHandle, photos, pagePc,
                   fixes, fixLog, decodeFailures>>

\* lines 373-375: the loop takes the next target and calls fixPhotoExifDate
FixAllNext(r, i) ==
    /\ r \in 1..Len(fixAll)
    /\ fixAll[r].pc = "running"
    /\ FixAwaited(r)
    /\ fixAll[r].next <= Len(fixAll[r].targets)
    /\ FreeFix(i)
    /\ fixPhotoExifDate(i, fixAll[r].targets[fixAll[r].next], r)
    /\ fixAll' = [fixAll EXCEPT ![r].next = @ + 1]
    /\ UNCHANGED <<mainVars, fnVars, refVars, logVars, loading, storeVars,
                   disk, albumName, albumDirHandle, photos, pagePc>>

\* line 376: the loop is through
FixAllFinish(r) ==
    /\ r \in 1..Len(fixAll)
    /\ fixAll[r].pc = "running"
    /\ FixAwaited(r)
    /\ fixAll[r].next > Len(fixAll[r].targets)
    /\ fixAll' = [fixAll EXCEPT ![r].pc = "finished"]
    /\ lastLog' = Log("success", "Finished fixing EXIF dates", albumName)
    /\ UNCHANGED <<mainVars, fnVars, refVars, logVars, loading, storeVars,
                   disk, albumName, albumDate, albumDirHandle, photos, pagePc,
                   fixes, fixLog, decodeFailures>>

FixAllRuns == 1..MaxFixAllRuns

FixAllSpecNext ==
    \/ LoadAlbumPhotos
    \/ FixAllStart
    \/ \E r \in FixAllRuns, i \in FixIds : FixAllNext(r, i)
    \/ \E r \in FixAllRuns : FixAllFinish(r)
    \/ \E i \in FixIds : FixReadOriginal(i)
    \/ \E i \in FixIds : FixWrite(i)
    \/ \E i \in FixIds : FixWriteFails(i)
    \/ \E i \in FixIds : FixRefresh(i)
    \/ \E k \in 1..Len(photos) : DeletePhoto(k)

SpecFixAll == FixAllInit /\ [][FixAllSpecNext]_vars

\* the outcomes (success or error) the calls of run r have reported so far
OutcomesOf(r) == SelectSeq(fixLog, LAMBDA e : e.run = r)

\* the names of the photos run r has attempted so far, in the order attempted
AttemptedBy(r) ==
    Names(OutcomesOf(r))
        \o [k \in 1..Cardinality(InFlightOf(r)) |->
               fixes[CHOOSE i \in InFlightOf(r) : TRUE].photo.name]

\* C21: a call of fixAllExifDates has at most one fix in flight; what it has
\* attempted so far is a prefix of the supported photos of the list in list
\* order, each once and no unsupported one; when it is through it has attempted
\* all of them and there is one outcome per photo in that order, also after a
\* failed one.
C21_FixAllSequential ==
    \A r \in 1..Len(fixAll) :
        LET supported == Names(SelectSeq(fixAll[r].shown,
                                         LAMBDA p : isSupportedImageFile(p.name)))
        IN  /\ Cardinality(InFlightOf(r)) <= 1
            /\ Len(AttemptedBy(r)) <= Len(supported)
            /\ AttemptedBy(r) = SubSeq(supported, 1, Len(AttemptedBy(r)))
            /\ Len(AttemptedBy(r)) = fixAll[r].next - 1
            /\ fixAll[r].pc = "finished" => Names(OutcomesOf(r)) = supported

C21_Witness ==
    /\ Len(fixAll) = 1
    /\ fixAll[1].pc = "finished"
    /\ Names(fixAll[1].shown) = <<FileA, FileB, FileC>>
    /\ Len(OutcomesOf(1)) = 2
    /\ ~OutcomesOf(1)[1].ok
    /\ OutcomesOf(1)[2].ok

(***************************************************************************)
(* fixPhotoExifDate as a function: called with any photo of the list       *)
(***************************************************************************)
FixCall(i, k) ==
    /\ pagePc = "loaded"
    /\ FreeFix(i)
    /\ k \in 1..Len(photos)
    /\ Len(fixLog) + Cardinality(InFlight) < MaxFixRuns
    /\ fixPhotoExifDate(i, photos[k], 0)
    /\ UNCHANGED <<mainVars, fixAll, fnVars, refVars, logVars, loading,
                   storeVars, disk, albumName, albumDirHandle, photos, pagePc>>

FixOneNext ==
    \/ LoadAlbumPhotos
    \/ \E i \in FixIds, k \in 1..Len(photos) : FixCall(i, k)
    \/ \E i \in FixIds : FixReadOriginal(i)
    \/ \E i \in FixIds : FixWrite(i)
    \/ \E i \in FixIds : FixWriteFails(i)
    \/ \E i \in FixIds : FixRefresh(i)

SpecFixOne == FixAllInit /\ [][FixOneNext]_vars

FixMixInit ==
    /\ FnUnused
    /\ MainUnused
    /\ RefUnused
    /\ LogUnused
    /\ disk = (NameTrip :> DirJune)
    /\ albumName = NameTrip
    /\ albumDate = Null
    /\ albumDirHandle = Null
    /\ photos = <<>>
    /\ pagePc = "mounted"
    /\ fixes = [i \in FixIds |-> IdleFix]
    /\ fixLog = <<>>
    /\ fixAll = <<>>
    /\ loading = Null
    /\ lastLog = Null
    /\ now = 1
    /\ albumCache = ScannedCache(disk)
    /\ storeTrace = [call |-> Null, lastSetAt |-> now, cleared |-> FALSE,
                     ticks |-> 0]
    /\ decodeFailures = 0

FixMixNext ==
    \/ LoadAlbumPhotos
    \/ FixAllStart
    \/ \E r \in FixAllRuns, i \in FixIds : FixAllNext(r, i)
    \/ \E r \in FixAllRuns : FixAllFinish(r)
    \/ \E i \in FixIds, k \in 1..Len(photos) : FixPrepare(i, k)
    \/ \E i \in FixIds : FixReadOriginal(i)
    \/ \E i \in FixIds : FixWrite(i)
    \/ \E i \in FixIds : FixWriteFails(i)
    \/ \E i \in FixIds : FixRefresh(i)

SpecFixMix == FixMixInit /\ [][FixMixNext]_vars

\* C39: no two calls of fixPhotoExifDate are in flight for the same photo when
\* one of them was made by fixAllExifDates and the other by the Fix button or
\* by another call of fixAllExifDates.
C39_OneFixPerPhoto ==
    \A i \in InFlight : \A j \in InFlight :
        (/\ i # j
         /\ fixes[i].photo.name = fixes[j].photo.name
         /\ fixes[i].run > 0)
            => fixes[j].run = fixes[i].run

(***************************************************************************)
(* routes/album/[name]/+page.svelte: loadAlbumPhotos, await by await       *)
(* loading is the call in flight: the image files of the folder, the index *)
(* of the file the loop is at, and the File that getFile has returned for  *)
(* it (Null before).  The list is hidden and the buttons Refresh and Fix   *)
(* all are disabled while isLoading; a fix that was started before goes on.*)
(***************************************************************************)
\* the end of one turn of the loop over the files, with `list` as the photos;
\* after the last file the sort and the finally block follow without an await
ReloadAdvance(list) ==
    /\ photos' = list
    /\ IF loading.i = Len(loading.imageFiles)
       THEN /\ pagePc' = "loaded"
            /\ loading' = Null
            /\ lastLog' = Log("success", "Loaded photos", albumName)
       ELSE /\ loading' = [loading EXCEPT !.i = @ + 1, !.file = Null]
            /\ lastLog' = Log("info", "Processing photo", albumName)
            /\ UNCHANGED pagePc

\* loadAlbumPhotos, lines 56-93: the list is emptied, the folder is looked up
\* and its image files are listed
ReloadStart ==
    /\ pagePc \in {"mounted", "loaded"}
    /\ albumDate' = parseAlbumDate(albumName).date
    /\ IF albumName \notin DOMAIN disk
       THEN /\ albumDirHandle' = Null
            /\ photos' = <<>>
            /\ pagePc' = "loaded"
            /\ loading' = Null
            /\ lastLog' = Log("error", "Failed to load album photos", albumName)
       ELSE \E imageFiles \in { getImageFiles(disk[albumName]) } :
              /\ albumDirHandle' = albumName
              /\ photos' = <<>>
              /\ IF Len(imageFiles) = 0
                 THEN /\ pagePc' = "loaded"
                      /\ loading' = Null
                      /\ lastLog' = Log("success", "Loaded photos", albumName)
                 ELSE /\ pagePc' = "loading"
                      /\ loading' = [imageFiles |-> imageFiles, i |-> 1,
                                     file |-> Null]
                      /\ lastLog' = Log("info", "Found image files", albumName)
    /\ UNCHANGED <<mainVars, fixAll, decodeFailures, fnVars, refVars, logVars,
                   storeVars, disk, albumName, fixes, fixLog>>

\* loadAlbumPhotos, line 99: fileHandle.getFile(); a file that is gone throws
\* and the loop goes on with the next file
ReloadGetFile ==
    /\ pagePc = "loading"
    /\ loading.file = Null
    /\ LET name == loading.imageFiles[loading.i]
       IN  IF Exists(name)
           THEN /\ loading' = [loading EXCEPT !.file = disk[albumName][name]]
                /\ UNCHANGED <<photos, pagePc, lastLog>>
           ELSE ReloadAdvance(photos)
    /\ UNCHANGED <<mainVars, fixAll, decodeFailures, fnVars, refVars, logVars,
                   storeVars, disk, albumName, albumDate, albumDirHandle,
                   fixes, fixLog>>

\* loadAlbumPhotos, lines 100-147: the File is read and the record is pushed.
\* A File whose file has been written since getFile gives the bytes it was
\* taken with, or the read fails.
ReloadPush ==
    /\ pagePc = "loading"
    /\ loading.file # Null
    /\ LET name == loading.imageFiles[loading.i]
           current == Exists(name) /\ disk[albumName][name] = loading.file
       IN  \E decoded \in BOOLEAN :
             /\ IF ~isSupportedImageFile(name)
                THEN decoded /\ UNCHANGED decodeFailures
                ELSE IF current THEN Decodes(decoded)
                ELSE UNCHANGED decodeFailures
             /\ ReloadAdvance(Append(photos,
                    LoadPhoto((name :> loading.file), name, albumDate, decoded)))
    /\ UNCHANGED <<mainVars, fixAll, fnVars, refVars, logVars, storeVars, disk,
                   albumName, albumDate, albumDirHandle, fixes, fixLog>>

ReloadNext ==
    \/ ReloadStart
    \/ ReloadGetFile
    \/ ReloadPush
    \/ \E i \in FixIds, k \in 1..Len(photos) : FixPrepare(i, k)
    \/ \E i \in FixIds : FixReadOriginal(i)
    \/ \E i \in FixIds : FixWrite(i)
    \/ \E i \in FixIds : FixWriteFails(i)
    \/ \E i \in FixIds : FixRefresh(i)

SpecReload == AlbumInit /\ [][ReloadNext]_vars

\* no load and no fix is in flight, and no read has failed to decode
AllFinished ==
    /\ pagePc = "loaded"
    /\ InFlight = {}
    /\ decodeFailures = 0
    /\ albumName \in DOMAIN disk

\* C38: once the reload and the fixes that ran beside it have all finished,
\* every photo of the list has the capture date and the status that the file
\* now on disk gives it, and no name is in the list twice.
C38_ListMatchesDisk ==
    AllFinished =>
        \A k \in 1..Len(photos) :
            /\ photos[k].name \in DOMAIN disk[albumName]
            /\ photos[k].exifDate
                  = LoadPhoto(disk[albumName], photos[k].name, albumDate,
                              TRUE).exifDate
            /\ photos[k].status
                  = LoadPhoto(disk[albumName], photos[k].name, albumDate,
                              TRUE).status
            /\ \A j \in 1..Len(photos) :
                  j # k => photos[j].name # photos[k].name

(***************************************************************************)
(* routes/main/+page.svelte: scans and background analyses                 *)
(* Every visit of /main is a new instance of the page with its own albums, *)
(* isLoading and error; a scan or an analysis an instance started goes on  *)
(* after the user has left the page.  The album cache is the one module-    *)
(* level object shared by all of them.                                     *)
(* History kept for the claims: every scan has a number (scans[p].id, in   *)
(* the order the scans started) and a flag stale, set when clearCache or a *)
(* setAlbums of a later scan happens while the scan is in flight;          *)
(* storeTrace.storedBy is the scan whose list the cache holds (0: none),   *)
(* scans[p].unreadable holds the folders whose enumeration threw;          *)
(* storeTrace.merge describes the last merge of a breakdown; threw counts  *)
(* the photos of an analysis whose read threw.                             *)
(***************************************************************************)
MaxPages == 2

MaxScans == 2

PageIds == 1..MaxPages

NoScan == [pc |-> "none", id |-> 0, stale |-> FALSE]

InFlightScan(p) == scans[p].pc \in {"listing", "albums"}

\* the instance the next visit of /main creates
FreePage(p) == scans[p].pc = "none" /\ \A q \in 1..(p - 1) : scans[q].pc # "none"

FolderNames == { NameTrip, NameMisc }

FileNames == { FileA, FileB, FileC }

ScanDirs ==
    { (FileA :> Tagged(<<2020, 6, 15, 12, 0, 0>>)) @@ (FileB :> Untagged),
      (FileA :> Tagged(<<2020, 6, 20, 12, 0, 0>>)),
      (FileC :> Untagged),
      (FileA :> Untagged) @@ (FileB :> Tagged(<<2020, 6, 15, 9, 0, 0>>)) }

ScanInit ==
    /\ FnUnused
    /\ RefUnused
    /\ LogUnused
    /\ disk \in { (NameTrip :> d) @@ (NameMisc :> DirMisc) : d \in ScanDirs }
    /\ albumName = Null /\ albumDate = Null /\ albumDirHandle = Null
    /\ photos = <<>> /\ pagePc = "none"
    /\ fixes = Null /\ fixLog = <<>> /\ lastLog = Null /\ decodeFailures = 0
    /\ fixAll = <<>>
    /\ loading = Null
    /\ now = 1
    /\ albumCache = clearCache
    /\ storeTrace = [call |-> Null, lastSetAt |-> 0, cleared |-> FALSE,
                     ticks |-> 0, storedBy |-> 0, merge |-> Null]
    /\ mounted = 0
    /\ albums = [p \in PageIds |-> <<>>]
    /\ isLoading = [p \in PageIds |-> FALSE]
    /\ error = [p \in PageIds |-> <<>>]
    /\ scans = [p \in PageIds |-> NoScan]
    /\ tasks = {}
    /\ scanCount = 0

ScanPageUnchanged ==
    UNCHANGED <<fnVars, refVars, logVars, loading, now, albumName, albumDate,
                albumDirHandle, photos, fixes, fixLog, fixAll>>

\* scanAlbums, lines 50-55: the cache answers
ScanHit(p, cachedAlbums) ==
    /\ albums' = [albums EXCEPT ![p] = cachedAlbums]
    /\ scans' = [scans EXCEPT ![p] =
                   [pc |-> "done", id |-> storeTrace.storedBy, stale |-> FALSE,
                    unreadable |-> {}]]
    /\ lastLog' = Log("info", "Loaded albums from cache", Null)
    /\ UNCHANGED <<isLoading, error, scanCount>>

\* scanAlbums, lines 57-63: no answer; the scan proper begins and suspends at
\* the call of fileSystemService.getAlbums.  earlier is the value of scans
\* the caller has left.
ScanMiss(p, earlier) ==
    /\ scanCount < MaxScans
    /\ isLoading' = [isLoading EXCEPT ![p] = TRUE]
    /\ error' = [error EXCEPT ![p] = <<>>]
    /\ albums' = [albums EXCEPT ![p] = <<>>]
    /\ scanCount' = scanCount + 1
    /\ scans' = [earlier EXCEPT ![p] =
                   [pc |-> "listing", id |-> scanCount + 1, stale |-> FALSE,
                    folderHandles |-> <<>>, idx |-> 0, unreadable |-> {}]]
    /\ lastLog' = Log("info", "Scanning albums...", Null)

\* onMount of a new instance of the main page: scanAlbums
MountMain(p) ==
    /\ mounted = 0
    /\ FreePage(p)
    /\ mounted' = p
    /\ pagePc' = "none"
    /\ LET cachedAlbums == getAlbums(RootName)
       IN  IF cachedAlbums # Null
           THEN ScanHit(p, cachedAlbums)
           ELSE ScanMiss(p, scans)
    /\ UNCHANGED <<storeVars, disk, decodeFailures, tasks>>
    /\ ScanPageUnchanged

\* the user leaves the main page for an album page (a link of the list, or
\* the history of the browser)
LeaveMain ==
    /\ mounted # 0
    /\ mounted' = 0
    /\ pagePc' = "mounted"
    /\ UNCHANGED <<storeVars, disk, decodeFailures, lastLog, albums, isLoading,
                   error, scans, tasks, scanCount>>
    /\ ScanPageUnchanged

\* the store call clearCache, with its history: every scan in flight is now
\* a scan that started before a clearCache
ClearedScans == [p \in PageIds |->
                   IF InFlightScan(p) THEN [scans[p] EXCEPT !.stale = TRUE]
                   ELSE scans[p]]

ScanClearsCache ==
    /\ albumCache' = clearCache
    /\ storeTrace' = [storeTrace EXCEPT !.call = [op |-> "clearCache"],
                         !.cleared = TRUE, !.storedBy = 0]

\* refreshAlbums (the button is disabled while isLoading): clearCache, then
\* scanAlbums, whose lookup finds the emptied cache
RefreshAlbums(p) ==
    /\ mounted = p
    /\ ~isLoading[p]
    /\ ScanClearsCache
    /\ ScanMiss(p, ClearedScans)
    /\ UNCHANGED <<mounted, disk, decodeFailures, tasks, pagePc>>
    /\ ScanPageUnchanged

\* scanAlbums, lines 119-135: the sort, setAlbums and the finally block.  The
\* store call makes every earlier scan still in flight a scan that a newer
\* setAlbums has overtaken.
ScanFinish(p, list, unreadable) ==
    \E sorted \in { SortAlbums(list) } :
        /\ albums' = [albums EXCEPT ![p] = sorted]
        /\ albumCache' = setAlbums(sorted, RootName)
        /\ storeTrace' = [storeTrace EXCEPT
              !.call = [op |-> "setAlbums", scan |-> scans[p].id,
                        stale |-> scans[p].stale],
              !.lastSetAt = now, !.cleared = FALSE, !.storedBy = scans[p].id]
        /\ isLoading' = [isLoading EXCEPT ![p] = FALSE]
        /\ scans' = [q \in PageIds |->
              IF q = p
              THEN [pc |-> "done", id |-> scans[p].id, stale |-> scans[p].stale,
                    unreadable |-> unreadable]
              ELSE IF InFlightScan(q) /\ scans[q].id < scans[p].id
              THEN [scans[q] EXCEPT !.stale = TRUE]
              ELSE scans[q]]
        /\ lastLog' = Log("success", "Found albums", Null)

\* scanAlbums, line 63: fileSystemService.getAlbums answers with the folders
\* of the root in the order of their names
ScanList(p) ==
    /\ scans[p].pc = "listing"
    /\ \E folderHandles \in { SortNames(DOMAIN disk) } :
           IF Len(folderHandles) = 0
           THEN ScanFinish(p, albums[p], {})
           ELSE /\ scans' = [scans EXCEPT ![p].pc = "albums",
                               ![p].folderHandles = folderHandles, ![p].idx = 1]
                /\ UNCHANGED <<storeVars, albums, isLoading, lastLog>>
    /\ UNCHANGED <<now, mounted, disk, decodeFailures, error, tasks, scanCount,
                   pagePc>>
    /\ ScanPageUnchanged

\* a failure that leaves the finally block out
ScanListFailsLoading(p) ==
    /\ scans[p].pc = "listing"
    /\ error' = [error EXCEPT ![p] = <<"Failed to read albums">>]
    /\ scans' = [scans EXCEPT ![p] =
                   [pc |-> "done", id |-> scans[p].id, stale |-> scans[p].stale,
                    unreadable |-> {}]]
    /\ lastLog' = Log("error", "Failed to scan albums", Null)
    /\ UNCHANGED <<storeVars, mounted, disk, decodeFailures, albums, tasks,
                   scanCount, pagePc, isLoading>>
    /\ ScanPageUnchanged

\* scanAlbums, lines 130-135: fileSystemService.getAlbums throws
ScanListFails(p) ==
    /\ scans[p].pc = "listing"
    /\ error' = [error EXCEPT ![p] = <<"Failed to read albums">>]
    /\ isLoading' = [isLoading EXCEPT ![p] = FALSE]
    /\ scans' = [scans EXCEPT ![p] =
                   [pc |-> "done", id |-> scans[p].id, stale |-> scans[p].stale,
                    unreadable |-> {}]]
    /\ lastLog' = Log("error", "Failed to scan albums", Null)
    /\ UNCHANGED <<storeVars, mounted, disk, decodeFailures, albums, tasks,
                   scanCount, pagePc>>
    /\ ScanPageUnchanged

\* scanAlbums, lines 65-116: one turn of the loop over the folders; a folder
\* that is gone reads as empty (getImageFiles and checkForNestedDirectories
\* catch).  The call of analyzeAlbumExifStatus runs up to its first await.
\* After the last folder the scan finishes without another await.
ScanAlbum(p) ==
    /\ scans[p].pc = "albums"
    /\ LET name == scans[p].folderHandles[scans[p].idx]
           dir == IF name \in DOMAIN disk THEN disk[name] ELSE <<>>
       IN  \E album \in { NewAlbum(name, dir) } :
           \E supportedFiles \in
                { SelectSeq(getImageFiles(dir), isSupportedImageFile) } :
           \E pushed \in { Append(albums[p], album) } :
           \E unreadable \in
                { IF name \in DOMAIN disk THEN scans[p].unreadable
                  ELSE scans[p].unreadable \cup {name} } :
           /\ tasks' =
                IF album.isValidFormat /\ Len(supportedFiles) > 0
                THEN tasks \cup
                       { [page |-> p, scan |-> scans[p].id, name |-> name,
                          parsedDate |-> album.parsedDate,
                          allFiles |-> supportedFiles, i |-> 1,
                          photoStatus |-> NewPhotoStatus(supportedFiles),
                          threw |-> 0] }
                ELSE tasks
           /\ IF scans[p].idx = Len(scans[p].folderHandles)
              THEN ScanFinish(p, pushed, unreadable)
              ELSE /\ albums' = [albums EXCEPT ![p] = pushed]
                   /\ scans' = [scans EXCEPT ![p].idx = @ + 1,
                                             ![p].unreadable = unreadable]
                   /\ lastLog' = Log("info", "Processing album", name)
                   /\ UNCHANGED <<albumCache, storeTrace, isLoading>>
    /\ UNCHANGED <<now, mounted, disk, decodeFailures, error, scanCount,
                   pagePc>>
    /\ ScanPageUnchanged

\* an analysis that ends without handing its breakdown on
MergeDropped(t, photoStatus) ==
    UNCHANGED <<albums, albumCache, storeTrace, lastLog>>

\* analyzeAlbumExifStatus, lines 316-326: the merge of the finished breakdown
\* into the list of the page and, if the album is in that list, into the cache
MergeBreakdown(t, photoStatus) ==
    LET albumIndex == findIndex(albums[t.page], t.name)
    IN  IF albumIndex # 0
        THEN /\ albums' = [albums EXCEPT ![t.page][albumIndex] =
                              Spread(@, [photoStatus |-> photoStatus])]
             /\ albumCache' = updateAlbum(albumCache, t.name,
                                          [photoStatus |-> photoStatus])
             /\ storeTrace' = [storeTrace EXCEPT
                   !.call = [op |-> "updateAlbum", name |-> t.name],
                   !.merge = [scan |-> t.scan, threw |-> t.threw,
                              photoStatus |-> photoStatus,
                              intoList |-> scans[t.page].id,
                              intoCache |->
                                 IF findIndex(albumCache.albums, t.name) # 0
                                 THEN storeTrace.storedBy ELSE 0]]
             /\ lastLog' = Log("info", "EXIF analysis", t.name)
        ELSE UNCHANGED <<albums, albumCache, storeTrace, lastLog>>

\* analyzeAlbumExifStatus, lines 261-314: one turn of the loop over the files;
\* after the last file the severity and the merge follow without an await
AnalyzeTurn(t) ==
    /\ t \in tasks
    /\ LET f == t.allFiles[t.i]
           present == t.name \in DOMAIN disk /\ f \in DOMAIN disk[t.name]
       IN  \E decoded \in BOOLEAN :
           \E exifDate \in
                { IF present
                  THEN getBestExifDate(readExifData(disk[t.name][f], decoded))
                  ELSE Null } :
           \E photoStatus \in
                { IF present
                  THEN AnalyzePhoto(t.photoStatus, t.parsedDate, exifDate)
                  ELSE AnalyzeFailed(t.photoStatus) } :
             LET turned == [t EXCEPT !.threw = IF present THEN @ ELSE @ + 1]
             IN  /\ IF present THEN Decodes(decoded)
                    ELSE decoded /\ UNCHANGED decodeFailures
                 /\ IF t.i < Len(t.allFiles)
                    THEN /\ tasks' = (tasks \ {t}) \cup
                               { [turned EXCEPT !.i = @ + 1,
                                                !.photoStatus = photoStatus] }
                         /\ UNCHANGED <<albums, albumCache, storeTrace,
                                        lastLog>>
                    ELSE /\ tasks' = tasks \ {t}
                         /\ \E merged \in { WithSeverity(photoStatus) } :
                               MergeBreakdown(turned, merged)
    /\ UNCHANGED <<now, mounted, disk, isLoading, error, scans, scanCount,
                   pagePc>>
    /\ ScanPageUnchanged

\* the analysis that the scan number id started for the album name
AnalyzeStep(id, name) ==
    \E t \in tasks : t.scan = id /\ t.name = name /\ AnalyzeTurn(t)

\* album page, deleteAlbum (lines 182-199), while the work of a main page
\* goes on: the cache is cleared, then removeEntry succeeds, and the page
\* leaves for /main, or throws
DeleteAlbumElsewhere(name) ==
    /\ mounted = 0
    /\ pagePc = "mounted"
    /\ ScanClearsCache
    /\ scans' = ClearedScans
    /\ \/ /\ name \in DOMAIN disk
          /\ disk' = Without(disk, name)
          /\ lastLog' = Log("success", "Album deleted", name)
          /\ pagePc' = "left"
       \/ /\ lastLog' = Log("error", "Failed to delete album", name)
          /\ UNCHANGED <<disk, pagePc>>
    /\ UNCHANGED <<now, mounted, decodeFailures, albums, isLoading, error,
                   tasks, scanCount>>
    /\ ScanPageUnchanged

\* album page, deletePhoto (lines 286-325), while an analysis of the album
\* goes on in the background: removeEntry succeeds
DeletePhotoElsewhere(name, f) ==
    /\ mounted = 0
    /\ pagePc = "mounted"
    /\ \E t \in tasks : t.name = name
    /\ name \in DOMAIN disk
    /\ f \in DOMAIN disk[name]
    /\ disk' = [disk EXCEPT ![name] = Without(@, f)]
    /\ lastLog' = Log("success", "Photo deleted", f)
    /\ UNCHANGED <<storeVars, mounted, decodeFailures, albums, isLoading,
                   error, scans, tasks, scanCount, pagePc>>
    /\ ScanPageUnchanged

ScanNext ==
    \/ \E p \in PageIds : MountMain(p)
    \/ LeaveMain
    \/ \E p \in PageIds : RefreshAlbums(p)
    \/ \E p \in PageIds : ScanList(p)
    \/ \E p \in PageIds : ScanListFails(p)
    \/ \E p \in PageIds : ScanAlbum(p)
    \/ \E id \in 1..MaxScans, name \in FolderNames : AnalyzeStep(id, name)
    \/ \E name \in FolderNames : DeleteAlbumElsewhere(name)
    \/ \E name \in FolderNames, f \in FileNames : DeletePhotoElsewhere(name, f)

SpecScan == ScanInit /\ [][ScanNext]_vars

\* The scan and the analyses are chains of promise continuations: once the
\* storage has answered, the event loop runs the next step of each of them,
\* whatever the user does meanwhile.
ScanFairness ==
    /\ \A p \in PageIds : WF_vars(ScanList(p) \/ ScanListFails(p))
    /\ \A p \in PageIds : WF_vars(ScanAlbum(p))
    /\ \A id \in 1..MaxScans, name \in FolderNames :
          WF_vars(AnalyzeStep(id, name))

\* the runs under fairness: the album has two photos, so that its analysis
\* takes two turns and can end before or after the scan stores its list
ScanFairInit ==
    /\ ScanInit
    /\ disk[NameTrip]
          = (FileA :> Untagged) @@ (FileB :> Tagged(<<2020, 6, 15, 9, 0, 0>>))

ScanFairNext ==
    \/ \E p \in PageIds : MountMain(p)
    \/ LeaveMain
    \/ \E p \in PageIds : RefreshAlbums(p)
    \/ \E p \in PageIds : ScanList(p)
    \/ \E p \in PageIds : ScanListFails(p)
    \/ \E p \in PageIds : ScanAlbum(p)
    \/ \E id \in 1..MaxScans, name \in FolderNames : AnalyzeStep(id, name)
    \/ \E name \in FolderNames : DeleteAlbumElsewhere(name)

SpecScanFair == ScanFairInit /\ [][ScanFairNext]_vars /\ ScanFairness

(***************************************************************************)
(* Claims about scans and analyses that have been overtaken                *)
(***************************************************************************)
\* C7: a scan that started before a clearCache, or before the setAlbums of a
\* newer scan, does not write its list into the cache afterwards: no call of
\* setAlbums is made by a scan that has been overtaken in that way.
C7_StaleScanNeverStores ==
    (storeTrace.call # Null /\ storeTrace.call.op = "setAlbums")
        => ~storeTrace.call.stale

\* C8: a breakdown computed by the analysis of an earlier scan is never merged
\* into the album list or the cache entry of a later scan.
C8_StaleBreakdownDropped ==
    storeTrace.merge # Null =>
        /\ storeTrace.merge.intoList <= storeTrace.merge.scan
        /\ storeTrace.merge.intoCache <= storeTrace.merge.scan

(***************************************************************************)
(* stores/albumStore.ts with object identity                                *)
(* Arrays and album records are objects on a heap; a reference is an index *)
(* of heap, 0 is null.  In this specification albumCache.albums is the      *)
(* reference of the cached array.  The caller is any code that holds array *)
(* references: the lists it built and the lists getAlbums returned.        *)
(* History: storeTrace.content is the content of the cache as the last     *)
(* store call left it, storeTrace.before is the state an updateAlbum met.  *)
(***************************************************************************)
MaxObjects == 6

\* the lists a caller builds
RefLists ==
    { <<NewAlbum(NameTrip, DirTrip)>>,
      <<NewAlbum(NameTrip, DirTrip), NewAlbum(NameJune, DirJune)>> }

ArrayObject(items) == [kind |-> "array", items |-> items]

RecordObject(value) == [kind |-> "record", value |-> value]

\* the album records an array refers to, in order
Items(h, a) == [i \in 1..Len(h[a].items) |-> h[h[a].items[i]].value]

\* what the cache holds: the records of its list, the root and the scan time
CachedContent ==
    [albums |-> Items(heap, albumCache.albums),
     lastScanTime |-> albumCache.lastScanTime,
     rootFolderName |-> albumCache.rootFolderName]

\* getAlbums, lines 225-240: the array of the cache itself, or null
getAlbumsRef(currentRootName) ==
    IF /\ albumCache.rootFolderName = currentRootName
       /\ albumCache.lastScanTime # 0
       /\ (now - albumCache.lastScanTime) < fiveMinutes
       /\ Len(heap[albumCache.albums].items) > 0
    THEN albumCache.albums
    ELSE 0

\* setAlbums, line 247: [...albums] is a new array of the same record objects
CopyArray(h, a) == Append(h, ArrayObject(h[a].items))

\* updateAlbum that assigns the given fields to the record it finds
UpdateInPlace(h, a, name, updates) ==
    LET index == findIndex(Items(h, a), name)
    IN  IF index # 0
        THEN [h EXCEPT ![h[a].items[index]] =
                RecordObject(Spread(h[h[a].items[index]].value, updates))]
        ELSE h

\* updateAlbum, lines 267-272, on the heap h for the cached array a: a new
\* record object takes the place of the first record of that name
UpdateOnHeap(h, a, name, updates) ==
    LET index == findIndex(Items(h, a), name)
    IN  IF index # 0
        THEN [Append(h, RecordObject(Spread(h[h[a].items[index]].value, updates)))
                EXCEPT ![a].items[index] = Len(h) + 1]
        ELSE h

RefInit ==
    /\ FnUnused
    /\ PageUnused
    /\ MainUnused
    /\ LogUnused
    /\ now = 1
    /\ heap = <<ArrayObject(<<>>)>>
    /\ held = {}
    /\ albumCache = [albums |-> 1, lastScanTime |-> 0, rootFolderName |-> Null]
    /\ storeTrace = [call |-> Null,
                     content |-> [albums |-> <<>>, lastScanTime |-> 0,
                                  rootFolderName |-> Null],
                     before |-> Null]

RefRest == UNCHANGED <<fnVars, pageVars, mainVars, logVars, now>>

\* a caller builds a list of new album records (scanAlbums, lines 59-105)
RefCallerBuilds(list) ==
    /\ Len(heap) + Len(list) + 1 <= MaxObjects
    /\ heap' = Append(heap \o [i \in 1..Len(list) |-> RecordObject(list[i])],
                      ArrayObject([i \in 1..Len(list) |-> Len(heap) + i]))
    /\ held' = held \cup {Len(heap) + Len(list) + 1}
    /\ storeTrace' = [storeTrace EXCEPT !.call = [op |-> "caller"]]
    /\ UNCHANGED albumCache
    /\ RefRest

\* albumStore.setAlbums(a, r) with a list a the caller holds
RefSetAlbums(a, r) ==
    /\ a \in held
    /\ Len(heap) < MaxObjects
    /\ heap' = CopyArray(heap, a)
    /\ albumCache' = [albums |-> Len(heap'), lastScanTime |-> now,
                      rootFolderName |-> r]
    /\ storeTrace' = [storeTrace EXCEPT
          !.call = [op |-> "setAlbums"],
          !.content = [albums |-> Items(heap, a), lastScanTime |-> now,
                       rootFolderName |-> r]]
    /\ UNCHANGED held
    /\ RefRest

\* albumStore.getAlbums(r): the caller keeps what it is given
RefGetAlbums(r) ==
    /\ storeTrace.call # [op |-> "getAlbums", result |-> getAlbumsRef(r)]
    /\ held' = held \cup ({getAlbumsRef(r)} \ {0})
    /\ storeTrace' = [storeTrace EXCEPT
          !.call = [op |-> "getAlbums", result |-> getAlbumsRef(r)]]
    /\ UNCHANGED <<heap, albumCache>>
    /\ RefRest

\* albumStore.clearCache: a new empty array
RefClearCache ==
    /\ Len(heap) < MaxObjects
    /\ heap' = Append(heap, ArrayObject(<<>>))
    /\ albumCache' = [albums |-> Len(heap'), lastScanTime |-> 0,
                      rootFolderName |-> Null]
    /\ storeTrace' = [storeTrace EXCEPT
          !.call = [op |-> "clearCache"],
          !.content = [albums |-> <<>>, lastScanTime |-> 0,
                       rootFolderName |-> Null]]
    /\ UNCHANGED held
    /\ RefRest

\* albumStore.updateAlbum(name, updates)
RefUpdateAlbum(name, updates) ==
    /\ Len(heap) < MaxObjects
    /\ heap' = UpdateOnHeap(heap, albumCache.albums, name, updates)
    /\ storeTrace' = [storeTrace EXCEPT
          !.call = [op |-> "updateAlbum", name |-> name, updates |-> updates],
          !.content = updateAlbum(CachedContent, name, updates),
          !.before = [heap |-> heap, cache |-> albumCache]]
    /\ UNCHANGED <<albumCache, held>>
    /\ RefRest

\* the caller writes to a list it holds: list.push(record of its own)
RefCallerPushes(a, r) ==
    /\ a \in held
    /\ r \in 1..Len(heap)
    /\ heap[r].kind = "record"
    /\ Len(heap[a].items) < 2
    /\ heap' = [heap EXCEPT ![a].items = Append(@, r)]
    /\ storeTrace' = [storeTrace EXCEPT !.call = [op |-> "caller"]]
    /\ UNCHANGED <<albumCache, held>>
    /\ RefRest

\* the caller writes to a record of a list it holds: list[i].status = ...
RefCallerAssigns(a, i) ==
    /\ a \in held
    /\ i \in 1..Len(heap[a].items)
    /\ heap[heap[a].items[i]].value.status = "unknown"
    /\ heap' = [heap EXCEPT ![heap[a].items[i]].value.status = "good"]
    /\ storeTrace' = [storeTrace EXCEPT !.call = [op |-> "caller"]]
    /\ UNCHANGED <<albumCache, held>>
    /\ RefRest

RefNext ==
    \/ \E list \in RefLists : RefCallerBuilds(list)
    \/ \E a \in 1..MaxObjects : RefSetAlbums(a, RootName)
    \/ RefGetAlbums(RootName)
    \/ RefClearCache
    \/ \E u \in SampleUpdates : RefUpdateAlbum(u.name, u.updates)
    \/ \E a \in 1..MaxObjects, r \in 1..MaxObjects : RefCallerPushes(a, r)
    \/ \E a \in 1..MaxObjects, i \in 1..2 : RefCallerAssigns(a, i)

SpecRef == RefInit /\ [][RefNext]_vars

\* C11: the content of the cache is what the last of setAlbums, updateAlbum
\* and clearCache left: nothing a caller does to a list it passed to
\* setAlbums or got from getAlbums changes the cached list or a cached record.
C11_NoLiveReference == CachedContent = storeTrace.content

\* C12: updateAlbum(name, fields) puts a newly built record, the old fields
\* overridden by the given ones, in the place of the first cached record of
\* that name; the old record object, every other object, the root name and
\* the scan time stay as they were; without a record of that name nothing
\* changes at all.
C12_UpdateAlbumReplaces ==
    (storeTrace.call # Null /\ storeTrace.call.op = "updateAlbum") =>
        LET h0 == storeTrace.before.heap
            a == albumCache.albums
            fields == storeTrace.call.updates
            old == Items(h0, a)
            named == { i \in 1..Len(old) : old[i].name = storeTrace.call.name }
        IN  /\ albumCache = storeTrace.before.cache
            /\ \A r \in (1..Len(h0)) \ {a} : heap[r] = h0[r]
            /\ IF named = {}
               THEN heap = h0
               ELSE LET i == CHOOSE k \in named : \A j \in named : k <= j
                        new == heap[a].items[i]
                    IN  /\ Len(heap[a].items) = Len(old)
                        /\ \A j \in (1..Len(old)) \ {i} :
                              heap[a].items[j] = h0[a].items[j]
                        /\ new \notin 1..Len(h0)
                        /\ DOMAIN heap[new].value = DOMAIN old[i] \cup DOMAIN fields
                        /\ \A f \in DOMAIN heap[new].value :
                              heap[new].value[f] =
                                 IF f \in DOMAIN fields THEN fields[f] ELSE old[i][f]

\* an update has hit the first of two cached records of the same name
C12_Witness ==
    /\ storeTrace.call # Null
    /\ storeTrace.call.op = "updateAlbum"
    /\ Len(heap[albumCache.albums].items) = 2
    /\ \A i \in 1..2 : CachedContent.albums[i].name = storeTrace.call.name
    /\ "photoStatus" \in DOMAIN CachedContent.albums[1]
    /\ "photoStatus" \notin DOMAIN CachedContent.albums[2]

(***************************************************************************)
(* Claims about the breakdown of an album                                   *)
(***************************************************************************)
\* the four counts of a breakdown add up to the number of photos analysed
TotalsAddUp(photoStatus) ==
    photoStatus.correct + photoStatus.earlierCount + photoStatus.laterCount
        + photoStatus.missingExif = photoStatus.totalAnalyzed

\* every breakdown in a list of a page or in the cache adds up
AllTotalsAddUp ==
    /\ \A p \in PageIds : \A i \in 1..Len(albums[p]) :
          "photoStatus" \in DOMAIN albums[p][i]
              => TotalsAddUp(albums[p][i].photoStatus)
    /\ \A i \in 1..Len(albumCache.albums) :
          "photoStatus" \in DOMAIN albumCache.albums[i]
              => TotalsAddUp(albumCache.albums[i].photoStatus)

Counted(photoStatus) ==
    photoStatus.correct + photoStatus.earlierCount + photoStatus.laterCount
        + photoStatus.missingExif

\* C24: a read that throws while a photo is analysed does not end the analysis:
\* at every turn of the loop every photo before the current one is counted
\* once, the photos whose read threw among the missing, and the breakdown that
\* is merged at the end counts all photos of the album.
C24_PhotoFailureIsolated ==
    /\ \A t \in tasks :
          /\ Counted(t.photoStatus) = t.i - 1
          /\ t.photoStatus.missingExif >= t.threw
    /\ storeTrace.merge # Null =>
          /\ TotalsAddUp(storeTrace.merge.photoStatus)
          /\ storeTrace.merge.photoStatus.missingExif >= storeTrace.merge.threw

\* the read of a.jpg threw, b.JPG was analysed after it, and the breakdown is
\* on the album in the list of the page
C24_Witness ==
    /\ storeTrace.merge # Null
    /\ storeTrace.merge.threw = 1
    /\ storeTrace.merge.photoStatus.missingExif = 1
    /\ storeTrace.merge.photoStatus.correct = 1
    /\ NameTrip \in DOMAIN disk
    /\ DOMAIN disk[NameTrip] = {FileB}
    /\ \E p \in PageIds : \E i \in 1..Len(albums[p]) :
          /\ albums[p][i].name = NameTrip
          /\ "photoStatus" \in DOMAIN albums[p][i]
          /\ albums[p][i].photoStatus = storeTrace.merge.photoStatus

\* a warning of an album other than the one about the format of its name
ReportsFailure(warning) ==
    warning # <<"Invalid album name format (expected YYYYMMdd)">>

\* C25: a folder whose enumeration threw during a scan is in the list of the
\* scan all the same, without a breakdown and with a warning in its warnings
\* that reports the failure; and the scan that met it goes on and, when it is
\* done, has every folder it was given in its list.
C25_AlbumFailureIsolated ==
    \A p \in PageIds :
        scans[p].pc \in {"albums", "done"} =>
            \A name \in scans[p].unreadable :
                \E i \in 1..Len(albums[p]) :
                    /\ albums[p][i].name = name
                    /\ "photoStatus" \notin DOMAIN albums[p][i]
                    /\ \E k \in 1..Len(albums[p][i].warnings) :
                          ReportsFailure(albums[p][i].warnings[k])

\* the analysis t has met, in this step, a photo whose read threw
ReadThrew(t) ==
    \E u \in tasks' :
        /\ u.page = t.page /\ u.scan = t.scan /\ u.name = t.name
        /\ u.threw > t.threw

\* C26: a failure that does not end the scan or the analysis is logged: the
\* step in which the read of a photo throws during an analysis writes a
\* warning or an error to the logger.
C26_FailuresLogged ==
    [][\A t \in tasks :
          ReadThrew(t) =>
              /\ lastLog' # lastLog
              /\ lastLog'.level \in {"warning", "error"}]_vars

\* the record of the album `name` in the list of page p, Null if there is none
RecordOf(p, name) ==
    LET k == findIndex(albums[p], name)
    IN  IF k = 0 THEN Null ELSE albums[p][k]

\* the analysis t was started by the scan that built the list of its page
OwnList(t) == scans[t.page].id = t.scan /\ RecordOf(t.page, t.name) # Null

DayGaps == {0, 1, 7, 8, 30, 31, 40}

\* breakdowns as the loop of analyzeAlbumExifStatus can leave them
SeverityInputs ==
    { [NewPhotoStatus(<<FileA, FileB>>) EXCEPT
          !.maxEarlierDays = e, !.maxLaterDays = l, !.missingExif = m]
        : e \in DayGaps, l \in DayGaps, m \in {0, 1, 2} }

YearStrings ==
    { <<"1", "8", "9", "9">>, <<"1", "9", "0", "0">>, <<"2", "0", "2", "0">>,
      <<"2", "0", "2", "3">>, <<"2", "1", "0", "0">>, <<"2", "1", "0", "1">> }

MonthStrings ==
    { <<"0", "0">>, <<"0", "1">>, <<"0", "2">>, <<"0", "4">>, <<"1", "2">>,
      <<"1", "3">> }

DayStrings ==
    { <<"0", "0">>, <<"0", "1">>, <<"2", "8">>, <<"2", "9">>, <<"3", "0">>,
      <<"3", "1">>, <<"3", "2">> }

NameTails == { <<>>, <<" ", "T">>, <<"9">>, <<"x">> }

\* folder names: every date prefix with every tail, and names with less than
\* eight leading digits
FolderNameInputs ==
    { y \o m \o d \o t : y \in YearStrings, m \in MonthStrings,
                         d \in DayStrings, t \in NameTails }
      \cup { <<>>, NameMisc, <<"2", "0", "2", "0", "0", "6", "1">>,
             <<"2", "0", "2", "0", " ", "0", "6", "1", "5">>,
             <<"x", "2", "0", "2", "0", "0", "6", "1", "5">> }

\* file names: a stem and an extension in several spellings
FileNameInputs ==
    { stem \o ext :
        stem \in { <<>>, <<"a">>, <<"a", ".", "j", "p", "g">> },
        ext \in { <<".", "j", "p", "g">>, <<".", "J", "P", "G">>,
                  <<".", "j", "p", "e", "g">>, <<".", "J", "P", "E", "G">>,
                  <<".", "J", "p", "g">>, <<".", "j", "p", "G">>,
                  <<".", "J", "p", "e", "g">>, <<".", "p", "n", "g">>,
                  <<".", "P", "N", "G">>, <<".", "j", "p", "g", "x">>,
                  <<"j", "p", "g">>, <<".", "j", "p">>, <<>> } }

\* the date prefixes formatYyyyMmDd gives for the dates picked in the popup
PrefixInputs == { NameJune, <<"2", "0", "2", "1", "0", "1", "0", "1">> }

\* album dates: midnight as parseAlbumDate gives it, and noon
AlbumDateInputs ==
    { NewDate(ymd[1], ymd[2], ymd[3], h, 0, 0, 0) :
        ymd \in { <<2020, 5, 15>>, <<2020, 0, 1>>, <<2020, 11, 31>> },
        h \in {0, 12} }

\* capture dates on and around those days, at the ends and the middle of the day
PhotoDateInputs ==
    { NewDate(ymd[1], ymd[2], ymd[3], hms[1], hms[2], hms[3], 0) :
        ymd \in { <<2020, 5, 14>>, <<2020, 5, 15>>, <<2020, 5, 16>>,
                  <<2019, 11, 31>>, <<2020, 0, 1>>, <<2020, 11, 31>>,
                  <<2021, 0, 1>>, <<2020, 4, 20>>, <<2020, 6, 10>> },
        hms \in { <<0, 0, 0>>, <<12, 0, 0>>, <<23, 59, 59>> } }

TagInputs ==
    { Null, NewDate(2020, 5, 15, 8, 30, 0, 0), NewDate(2020, 5, 16, 9, 0, 0, 0),
      NewDate(2020, 5, 17, 10, 0, 0, 0) }

\* the files of an analysed album: without a date, and with dates before,
\* on and after the 15th and the 20th of June 2020
AnalyzeFiles ==
    { Untagged } \cup
    { Tagged(t) : t \in { <<2020, 6, 14, 23, 59, 59>>, <<2020, 6, 15, 12, 0, 0>>,
                          <<2020, 6, 16, 0, 0, 0>>, <<2020, 6, 18, 9, 0, 0>>,
                          <<2020, 6, 21, 9, 0, 0>>, <<2020, 7, 25, 9, 0, 0>>,
                          <<2020, 5, 1, 9, 0, 0>> } }

AnalyzeDirs ==
    { (FileA :> x) @@ (FileB :> y) : x \in AnalyzeFiles, y \in AnalyzeFiles }
      \cup { (FileA :> x) : x \in AnalyzeFiles }

\* a folder inside an album folder, with photos of its own
NestedFolder ==
    [kind |-> "directory", entries |-> (FileA :> Untagged) @@ (FileC :> Untagged)]

\* the entries an album folder is made of: photos the writer supports and
\* does not support, a file that is no image, and two folders
AlbumEntries ==
    (FileA :> Untagged) @@ (FileB :> Untagged) @@ (FileC :> Untagged)
      @@ (<<"a", ".", "j", "p", "G">> :> Untagged)
      @@ (<<"n", ".", "t", "x", "t">> :> Untagged)
      @@ (<<"r", "a", "w">> :> NestedFolder)
      @@ (<<"s", "e", "t">> :> [kind |-> "directory", entries |-> <<>>])

AlbumDirInputs ==
    { [n \in names |-> AlbumEntries[n]] : names \in SUBSET DOMAIN AlbumEntries }

\* folder names with a date, with an equal date, and without a date
SortNameInputs ==
    { <<"2", "0", "2", "0", "0", "1", "0", "1">>,
      <<"2", "0", "2", "0", "0", "1", "0", "1", " ", "b">>,
      <<"2", "0", "2", "1", "0", "1", "0", "1">>,
      <<"2", "0", "2", "0", "5">>,
      NameTrip, NameMisc }

FnInit ==
    /\ StoreUnused
    /\ PageUnused
    /\ MainUnused
    /\ RefUnused
    /\ LogUnused
    /\ fnOut = Null
    /\ \/ fnIn \in [fn : {"severity"}, photoStatus : SeverityInputs]
       \/ fnIn \in [fn : {"parseAlbumDate"}, folderName : FolderNameInputs]
       \/ fnIn \in [fn : {"categorizePhotoDate"}, albumDate : AlbumDateInputs,
                     photoDate : PhotoDateInputs \cup {Null}]
       \/ fnIn \in [fn : {"sort"}, names : SUBSET SortNameInputs]
       \/ fnIn \in [fn : {"confirmRename"}, albumName : FolderNameInputs,
                     prefix : PrefixInputs]
       \/ fnIn \in [fn : {"isSupportedImageFile"}, filename : FileNameInputs]
       \/ fnIn \in [fn : {"daysBetween"},
                     a : PhotoDateInputs \cup AlbumDateInputs,
                     b : PhotoDateInputs \cup AlbumDateInputs]
       \/ fnIn \in [fn : {"analyzeAlbumExifStatus"}, name : {NameTrip, NameJune},
                     dir : AnalyzeDirs]
       \/ fnIn \in [fn : {"scanAlbum"}, name : {NameTrip, NameMisc},
                     dir : AlbumDirInputs]
       \/ fnIn \in [fn : {"getBestExifDate"},
                     exifData : [dateTimeOriginal : TagInputs,
                                 createDate : TagInputs,
                                 modifyDate : TagInputs]]

FnRest == UNCHANGED <<fnIn, storeVars, pageVars, mainVars, refVars, logVars>>

FnSeverity ==
    /\ fnIn.fn = "severity"
    /\ fnOut = Null
    /\ fnOut' = WithSeverity(fnIn.photoStatus)
    /\ FnRest

FnParseAlbumDate ==
    /\ fnIn.fn = "parseAlbumDate"
    /\ fnOut = Null
    /\ fnOut' = parseAlbumDate(fnIn.folderName)
    /\ FnRest

FnCategorizePhotoDate ==
    /\ fnIn.fn = "categorizePhotoDate"
    /\ fnOut = Null
    /\ fnOut' = [category |-> categorizePhotoDate(fnIn.albumDate, fnIn.photoDate)]
    /\ FnRest

FnGetBestExifDate ==
    /\ fnIn.fn = "getBestExifDate"
    /\ fnOut = Null
    /\ fnOut' = [best |-> getBestExifDate(fnIn.exifData)]
    /\ FnRest

\* analyzeAlbumExifStatus, lines 239-314, when every read succeeds
FnAnalyze ==
    /\ fnIn.fn = "analyzeAlbumExifStatus"
    /\ fnOut = Null
    /\ fnOut' = [photoStatus |-> BreakdownOf(fnIn.name, fnIn.dir)]
    /\ FnRest

\* scanAlbums, lines 65-102: the album record of one folder
FnScanAlbum ==
    /\ fnIn.fn = "scanAlbum"
    /\ fnOut = Null
    /\ fnOut' = [album |-> NewAlbum(fnIn.name, fnIn.dir)]
    /\ FnRest

FnDaysBetween ==
    /\ fnIn.fn = "daysBetween"
    /\ fnOut = Null
    /\ fnOut' = [days |-> daysBetween(fnIn.a, fnIn.b),
                 reverse |-> daysBetween(fnIn.b, fnIn.a)]
    /\ FnRest

\* the three places that decide by the name of a file: isSupportedImageFile,
\* the name check of writeExifData and the filter of getImageFiles
FnIsSupportedImageFile ==
    /\ fnIn.fn = "isSupportedImageFile"
    /\ fnOut = Null
    /\ fnOut' = [isSupported |-> isSupportedImageFile(fnIn.filename),
                 writerAccepts |-> isJpegByName(fnIn.filename),
                 imageLike |-> IsImageLike(fnIn.filename)]
    /\ FnRest

FnConfirmRename ==
    /\ fnIn.fn = "confirmRename"
    /\ fnOut = Null
    /\ fnOut' = [newName |-> confirmRename(fnIn.albumName, fnIn.prefix)]
    /\ FnRest

\* scanAlbums, lines 63-124, for folders without files: the albums are
\* pushed in the order of fileSystemService.getAlbums, then sorted
FnSort ==
    /\ fnIn.fn = "sort"
    /\ fnOut = Null
    /\ LET folderHandles == SortNames(fnIn.names)
       IN  fnOut' = [sorted |-> SortAlbums([i \in 1..Len(folderHandles) |->
                                             NewAlbum(folderHandles[i], <<>>)])]
    /\ FnRest

FnNext ==
    \/ FnSort
    \/ FnSeverity
    \/ FnParseAlbumDate
    \/ FnCategorizePhotoDate
    \/ FnGetBestExifDate
    \/ FnDaysBetween
    \/ FnScanAlbum
    \/ FnAnalyze
    \/ FnConfirmRename
    \/ FnIsSupportedImageFile

SpecFn == FnInit /\ [][FnNext]_vars

Called(fn) == fnIn.fn = fn /\ fnOut # Null

\* C14: the severity is 'error' when a maximum gap is above 30 days, else
\* 'warning' when a maximum gap is above 7 days or a date is missing, else
\* 'good'; it is determined by the two gaps and the missing count, and
\* nothing else of the breakdown changes.
C14_Severity ==
    Called("severity") =>
        LET e == fnIn.photoStatus.maxEarlierDays
            l == fnIn.photoStatus.maxLaterDays
            m == fnIn.photoStatus.missingExif
        IN  /\ fnOut.severity =
                  IF e > 30 \/ l > 30 THEN "error"
                  ELSE IF e > 7 \/ l > 7 \/ m > 0 THEN "warning"
                  ELSE "good"
            /\ \A f \in DOMAIN fnOut \ {"severity"} : fnOut[f] = fnIn.photoStatus[f]

\* gaps of exactly 30 and 7 days with nothing missing: 'warning'
C14_Witness ==
    /\ Called("severity")
    /\ fnIn.photoStatus.maxEarlierDays = 30
    /\ fnIn.photoStatus.maxLaterDays = 7
    /\ fnIn.photoStatus.missingExif = 0
    /\ fnOut.severity = "warning"

\* the days of month m (1..12) of year y in the Gregorian calendar
GregorianDays(y, m) ==
    IF m = 2
    THEN (IF (y % 4 = 0 /\ y % 100 # 0) \/ y % 400 = 0 THEN 29 ELSE 28)
    ELSE IF m \in {4, 6, 9, 11} THEN 30 ELSE 31

StartsWithDigits(str, n) == Len(str) >= n /\ \A i \in 1..n : str[i] \in Digits

\* the eight leading characters of str are a real date of 1900..2100
PrefixIsRealDate(str) ==
    LET y == parseInt(SubSeq(str, 1, 4))
        m == parseInt(SubSeq(str, 5, 6))
        d == parseInt(SubSeq(str, 7, 8))
    IN  /\ y \in 1900..2100
        /\ m \in 1..12
        /\ d \in 1..GregorianDays(y, m)

\* C15: parseAlbumDate(s).isValid exactly when s starts with exactly eight
\* digits (not nine or more) that are a real calendar date of the years
\* 1900..2100; the date returned is then that year, month and day.
C15_ValidIffEightDigitDate ==
    Called("parseAlbumDate") =>
        /\ fnOut.isValid <=> (/\ StartsWithDigits(fnIn.folderName, 8)
                              /\ ~StartsWithDigits(fnIn.folderName, 9)
                              /\ PrefixIsRealDate(fnIn.folderName))
        /\ fnOut.isValid =>
              /\ fnOut.date.year = parseInt(SubSeq(fnIn.folderName, 1, 4))
              /\ fnOut.date.month + 1 = parseInt(SubSeq(fnIn.folderName, 5, 6))
              /\ fnOut.date.date = parseInt(SubSeq(fnIn.folderName, 7, 8))

\* C16: parseAlbumDate reports the eight leading digits whenever the name
\* starts with eight digits, also when it rejects them, and no prefix
\* otherwise; it returns a date exactly when isValid is true.
C16_PrefixReported ==
    Called("parseAlbumDate") =>
        /\ fnOut.dateString =
              IF StartsWithDigits(fnIn.folderName, 8)
              THEN SubSeq(fnIn.folderName, 1, 8) ELSE Null
        /\ (fnOut.date # Null) <=> fnOut.isValid

\* the 30th of February is rejected and reported
C16_Witness ==
    /\ Called("parseAlbumDate")
    /\ ~fnOut.isValid
    /\ fnOut.date = Null
    /\ fnOut.dateString = <<"2", "0", "2", "0", "0", "2", "3", "0">>

\* the calendar date of a is after the calendar date of b
CalendarAfter(a, b) ==
    \/ a.year > b.year
    \/ a.year = b.year /\ a.month > b.month
    \/ a.year = b.year /\ a.month = b.month /\ a.date > b.date

\* C17: categorizePhotoDate is 'missingExif' without a photo date, 'correct'
\* when year, month and day are the album's, 'futureDate' when the photo's
\* calendar date is after the album's and 'pastDate' otherwise: the time of
\* day of the photo never matters.
C17_CategoryByCalendarDate ==
    Called("categorizePhotoDate") =>
        fnOut.category =
            IF fnIn.photoDate = Null THEN "missingExif"
            ELSE IF /\ fnIn.photoDate.year = fnIn.albumDate.year
                    /\ fnIn.photoDate.month = fnIn.albumDate.month
                    /\ fnIn.photoDate.date = fnIn.albumDate.date
                 THEN "correct"
            ELSE IF CalendarAfter(fnIn.photoDate, fnIn.albumDate) THEN "futureDate"
            ELSE "pastDate"

\* a photo of the last second of the album's day is 'correct'
C17_Witness ==
    /\ Called("categorizePhotoDate")
    /\ fnIn.albumDate = NewDate(2020, 5, 15, 0, 0, 0, 0)
    /\ fnIn.photoDate = NewDate(2020, 5, 15, 23, 59, 59, 0)
    /\ fnOut.category = "correct"

\* C19: getBestExifDate returns the first tag that is present, in the order
\* dateTimeOriginal, createDate, modifyDate; it returns nothing only when
\* all three are absent, and never a value that is none of the three.
C19_BestDatePriority ==
    Called("getBestExifDate") =>
        LET x == fnIn.exifData
        IN  /\ x.dateTimeOriginal # Null => fnOut.best = x.dateTimeOriginal
            /\ (x.dateTimeOriginal = Null /\ x.createDate # Null)
                  => fnOut.best = x.createDate
            /\ (x.dateTimeOriginal = Null /\ x.createDate = Null)
                  => fnOut.best = x.modifyDate
            /\ fnOut.best \in {x.dateTimeOriginal, x.createDate, x.modifyDate}
            /\ fnOut.best = Null
                  <=> (/\ x.dateTimeOriginal = Null /\ x.createDate = Null
                       /\ x.modifyDate = Null)

\* without the primary tag the creation time wins over the modification time
C19_Witness ==
    /\ Called("getBestExifDate")
    /\ fnIn.exifData.dateTimeOriginal = Null
    /\ fnIn.exifData.createDate = NewDate(2020, 5, 16, 9, 0, 0, 0)
    /\ fnIn.exifData.modifyDate = NewDate(2020, 5, 15, 8, 30, 0, 0)
    /\ fnOut.best = fnIn.exifData.createDate

\* C18: a supported photo is 'unknown' only when the album has no valid
\* date; a supported photo without a capture date in an album with a valid
\* date has a classification of its own; a file that is not supported is
\* 'unsupported' whatever the dates are.
C18_UnknownStatesApart ==
    \A k \in 1..Len(photos) :
        /\ ~photos[k].isSupported => photos[k].status = "unsupported"
        /\ (photos[k].isSupported /\ photos[k].status = "unknown")
              => albumDate = Null

\* C20: in the sorted album list any two albums that both have a date are in
\* descending order of date, whatever other albums the list holds; two albums
\* of the same date, and two albums without a date, are in the order of
\* their names.
C20_SortedByDateDescending ==
    Called("sort") =>
        \A i \in 1..Len(fnOut.sorted) : \A j \in (i + 1)..Len(fnOut.sorted) :
            LET a == fnOut.sorted[i]
                b == fnOut.sorted[j]
            IN  /\ (a.parsedDate # Null /\ b.parsedDate # Null)
                      => \/ CalendarAfter(a.parsedDate, b.parsedDate)
                         \/ /\ a.parsedDate = b.parsedDate
                            /\ localeLess(a.name, b.name)
                /\ (a.parsedDate = Null /\ b.parsedDate = Null)
                      => localeLess(a.name, b.name)

\* the part of a name after its first eight characters
AfterPrefix(name) == SubSeq(name, 9, Len(name))

\* C27: for an album name that starts with 8 digits, the name confirmRename
\* gives has, after its first 8 characters, exactly what the old name has
\* after its first 8 characters, the separating whitespace included.
C27_RenameKeepsRest ==
    (Called("confirmRename") /\ MatchDatePrefix(fnIn.albumName))
        => AfterPrefix(fnOut.newName) = AfterPrefix(fnIn.albumName)

\* C28: a file name is supported exactly when the name check of the writer
\* accepts it, and every supported name is image-like for getImageFiles.
C28_SupportedIffWritable ==
    Called("isSupportedImageFile") =>
        /\ fnOut.isSupported = fnOut.writerAccepts
        /\ fnOut.isSupported => fnOut.imageLike

\* every cached album with a valid name and a supported photo has a breakdown
CacheComplete ==
    \A i \in 1..Len(albumCache.albums) :
        (/\ albumCache.albums[i].isValidFormat
         /\ albumCache.albums[i].supportedPhotoCount > 0)
            => "photoStatus" \in DOMAIN albumCache.albums[i]

\* the order scanAlbums gives to albums of these names, whatever else is in
\* their records
OrderOf(names) ==
    LET folderHandles == SortNames(names)
    IN  Names(SortAlbums([i \in 1..Len(folderHandles) |->
                            NewAlbum(folderHandles[i], <<>>)]))

SameCalendarDate(a, b) ==
    a.year = b.year /\ a.month = b.month /\ a.date = b.date

\* C33: daysBetween(a, b) = -daysBetween(b, a); the gap is 0 exactly when the
\* two dates are on the same calendar day, whatever their times of day; and
\* from a date at 23:59 to any time of the following day the gap is 1.
C33_DayGap ==
    Called("daysBetween") =>
        /\ fnOut.days = 0 - fnOut.reverse
        /\ fnOut.days = 0 <=> SameCalendarDate(fnIn.a, fnIn.b)
        /\ (/\ fnIn.b.hours = 23 /\ fnIn.b.minutes = 59
            /\ DayNumber(fnIn.a) = DayNumber(fnIn.b) + 1)
              => fnOut.days = 1

\* the gap from 23:59:59 on the 14th of June to midnight of the 15th
C33_Witness ==
    /\ Called("daysBetween")
    /\ fnIn.a = NewDate(2020, 5, 15, 0, 0, 0, 0)
    /\ fnIn.b = NewDate(2020, 5, 14, 23, 59, 59, 0)
    /\ fnOut.days = 1
    /\ fnOut.reverse = 0 - 1

\* the capture date the analysis finds for the file f of the input folder
CaptureOf(f) == getBestExifDate(readExifData(fnIn.dir[f], TRUE))

\* the days from the album date of the input to the capture date of f
GapOf(f) == DayNumber(CaptureOf(f)) - DayNumber(parseAlbumDate(fnIn.name).date)

\* the files of the input folder dated after, and before, the album's day
LaterFiles == { f \in DOMAIN fnIn.dir : CaptureOf(f) # Null /\ GapOf(f) > 0 }

EarlierFiles == { f \in DOMAIN fnIn.dir : CaptureOf(f) # Null /\ GapOf(f) < 0 }

\* the largest number of a finite set of numbers, 0 for the empty set
SetMax(S) == IF S = {} THEN 0 ELSE CHOOSE m \in S : \A x \in S : x <= m

\* C34: maxLaterDays is the largest day gap among the photos counted in
\* laterCount and maxEarlierDays the largest among those counted in
\* earlierCount; each is 0 exactly when its counter is 0; latestExifDate and
\* earliestExifDate are there exactly when their counter is above 0.
C34_MaxGaps ==
    Called("analyzeAlbumExifStatus") =>
        LET photoStatus == fnOut.photoStatus
        IN  /\ photoStatus.laterCount = Cardinality(LaterFiles)
            /\ photoStatus.earlierCount = Cardinality(EarlierFiles)
            /\ photoStatus.maxLaterDays = SetMax({ GapOf(f) : f \in LaterFiles })
            /\ photoStatus.maxEarlierDays
                  = SetMax({ 0 - GapOf(f) : f \in EarlierFiles })
            /\ photoStatus.maxLaterDays = 0 <=> photoStatus.laterCount = 0
            /\ photoStatus.maxEarlierDays = 0 <=> photoStatus.earlierCount = 0
            /\ photoStatus.latestExifDate # Null <=> photoStatus.laterCount > 0
            /\ photoStatus.earliestExifDate # Null
                  <=> photoStatus.earlierCount > 0

\* a photo 40 days after the album date is followed by one a day after it
C34_Witness ==
    /\ Called("analyzeAlbumExifStatus")
    /\ fnIn.name = NameTrip
    /\ fnIn.dir = (FileA :> Tagged(<<2020, 7, 25, 9, 0, 0>>))
                    @@ (FileB :> Tagged(<<2020, 6, 16, 0, 0, 0>>))
    /\ fnOut.photoStatus.laterCount = 2
    /\ fnOut.photoStatus.maxLaterDays = 40
    /\ fnOut.photoStatus.earlierCount = 0
    /\ fnOut.photoStatus.earliestExifDate = Null

\* the entries of the input folder that are folders, and those that are
\* images the writer does not support
NestedOf(dir) == { n \in DOMAIN dir : dir[n].kind = "directory" }

UnsupportedOf(dir) ==
    { n \in DOMAIN dir :
        dir[n].kind = "file" /\ IsImageLike(n) /\ ~isSupportedImageFile(n) }

\* the number of the conditions that hold among the first j of: the name is
\* invalid, a folder is nested, a photo is unsupported
WarningsBefore(j) ==
    (IF j >= 1 /\ ~parseAlbumDate(fnIn.name).isValid THEN 1 ELSE 0)
      + (IF j >= 2 /\ NestedOf(fnIn.dir) # {} THEN 1 ELSE 0)
      + (IF j >= 3 /\ UnsupportedOf(fnIn.dir) # {} THEN 1 ELSE 0)

\* C35: the warnings of an album are, in this order and each exactly when its
\* condition holds: the invalid format of the name; the nested folders, naming
\* every folder that is directly in the album; the number of unsupported
\* photos.  The photos of a nested folder are not counted.
C35_WarningsInOrder ==
    Called("scanAlbum") =>
        LET warnings == fnOut.album.warnings
        IN  /\ Len(warnings) = WarningsBefore(3)
            /\ ~parseAlbumDate(fnIn.name).isValid =>
                  warnings[1] = <<"Invalid album name format (expected YYYYMMdd)">>
            /\ NestedOf(fnIn.dir) # {} =>
                  LET w == warnings[WarningsBefore(2)]
                  IN  /\ Len(w) = 2
                      /\ w[1] = "Contains nested folders: "
                      /\ Len(w[2]) = Cardinality(NestedOf(fnIn.dir))
                      /\ { w[2][i] : i \in 1..Len(w[2]) } = NestedOf(fnIn.dir)
            /\ UnsupportedOf(fnIn.dir) # {} =>
                  warnings[WarningsBefore(3)]
                      = <<Cardinality(UnsupportedOf(fnIn.dir)),
                          " unsupported file(s)">>
            /\ fnOut.album.photoCount
                  = Cardinality({ n \in DOMAIN fnIn.dir :
                                    fnIn.dir[n].kind = "file" /\ IsImageLike(n) })

\* an album with an invalid name, two nested folders and two unsupported
\* photos has the three warnings
C35_Witness ==
    /\ Called("scanAlbum")
    /\ fnIn.name = NameMisc
    /\ fnIn.dir = AlbumEntries
    /\ Len(fnOut.album.warnings) = 3
    /\ fnOut.album.warnings[2]
          = <<"Contains nested folders: ", << <<"r", "a", "w">>, <<"s", "e", "t">> >> >>
    /\ fnOut.album.warnings[3] = <<2, " unsupported file(s)">>
    /\ fnOut.album.photoCount = 4

\* the scan of page p has ended in the catch block of scanAlbums
ScanFailed(p) == scans[p].pc = "done" /\ error[p] # <<>>

\* in this step the listing of the root throws in the scan of page p
ScanFailsNow(p) ==
    /\ scans[p].pc = "listing"
    /\ scans'[p].pc = "done"
    /\ lastLog'.message = "Failed to scan albums"

\* in this step a new instance of the main page is answered by the cache
CacheAnswersNow ==
    /\ mounted = 0
    /\ mounted' # 0
    /\ lastLog'.message = "Loaded albums from cache"

\* C40: a scan whose listing of the root throws sets error, leaves the cache
\* as it is, starts no analysis and ends with isLoading false; a scan that the
\* cache answers reads nothing, starts nothing and is over at once; and every
\* scan that has set isLoading sets it back to false.
C40_ScanEnds ==
    /\ [](\A p \in PageIds :
            ScanFailed(p) =>
                /\ ~isLoading[p]
                /\ storeTrace.storedBy # scans[p].id
                /\ \A t \in tasks : t.scan # scans[p].id)
    /\ [][\A p \in PageIds :
            ScanFailsNow(p) =>
                /\ error'[p] # <<>>
                /\ ~isLoading'[p]
                /\ albumCache' = albumCache]_vars
    /\ [][CacheAnswersNow =>
            /\ scans'[mounted'].pc = "done"
            /\ albums'[mounted'] = albumCache.albums
            /\ tasks' = tasks
            /\ isLoading' = isLoading
            /\ scanCount' = scanCount
            /\ albumCache' = albumCache]_vars
    /\ \A p \in PageIds : isLoading[p] ~> ~isLoading[p]

\* the scan of one page has failed while the cache holds the list that the
\* scan of another page stored
C40_Witness ==
    \E p \in PageIds :
        /\ ScanFailed(p)
        /\ ~isLoading[p]
        /\ albums[p] = <<>>
        /\ albumCache.albums # <<>>
        /\ storeTrace.storedBy # 0
        /\ storeTrace.storedBy # scans[p].id

====
